---------------------------- MODULE Spec2Model ----------------------------
(***************************************************************************)
(* Model of the admin back end of the ugol-trans website: role resolution  *)
(* and the access mixins of the admin classes, the singleton pages and     *)
(* blocks, the SiteSettings form, the Diagram activation limit and the     *)
(* Application status / processed_at life cycle.                           *)
(*                                                                         *)
(* Each subsystem has its own specification (SpecAccess, SpecSingleton,    *)
(* SpecSettings, SpecDiagram, SpecApplication); a specification leaves the *)
(* variables of the other subsystems at their initial values.              *)
(***************************************************************************)
EXTENDS Integers, Sequences, FiniteSets, TLC

VARIABLES
    users,          \* accounts.User rows: id -> NoRow or [role, role_given]
    request,        \* the last admin request and its outcome
    instances,      \* singleton types: type -> set of primary keys stored
    siteSettings,   \* the SiteSettings row: field -> value
    diagrams,       \* business_analytics.Diagram rows: id -> NoRow or row
    applications,   \* applications.Application rows: id -> NoRow or row
    now,            \* the clock read by timezone.now()
    notified,       \* per Application id: notification attempts made so far
    categories,     \* business_analytics.DiagramCategory rows: id -> NoRow or row
    sectionMedia,   \* dynamic_pages.SectionImage / SectionFile rows
    media,          \* core.Image / core.File rows: id -> NoRow or row
    storage,        \* the file system under and around MEDIA_ROOT
    news,           \* news.News rows: id -> NoRow or row
    tables,         \* the rows written of the models that define clean()
    writers         \* concurrent admin requests: id -> where the request is

\* The rows of the content models that the access, singleton, settings,
\* diagram and application operations never touch.
contentVars == <<categories, sectionMedia, media, storage, news, tables, writers>>

vars == <<users, request, instances, siteSettings, diagrams, applications, now,
          notified, categories, sectionMedia, media, storage, news, tables, writers>>

\* ------------------------------------------------------------------ bounds

MaxUsers == 1
MaxPk == 2
MaxDiagrams == 3
MaxApplications == 1
MaxTime == 1
MaxPostedChanges == 2
MaxAccounts == 2
MaxSectionMedia == 2
MaxMedia == 2
MaxNews == 2
MaxWrites == 2
MaxWriters == 2

\* A missing row, Python's None, and a request that has not been made yet.
NoRow == [exists |-> FALSE]
None == "None"
NoRequest == [view |-> "none"]

\* ------------------------------------------------------- accounts.User

ROLE_CHOICES == {"admin", "content_manager", "crm_manager"}

\* role = models.CharField(..., default='content_manager')
RoleDefault == "content_manager"

\* The argument of a User creation: a role, or no role given at all.
Omitted == "Omitted"

UserIds == 1..MaxUsers

\* request.user of a request without a session: django's AnonymousUser.
AnonymousUser == [is_authenticated |-> FALSE, role |-> None, role_given |-> FALSE]

\* request.user of a logged-in account: its stored row.
LoggedIn(row) ==
    [is_authenticated |-> TRUE, role |-> row.role, role_given |-> row.role_given]

is_admin(u) == u.role = "admin"

is_content_manager(u) == u.role = "content_manager"

is_crm_manager(u) == u.role = "crm_manager"

is_staff(u) == u.role \in {"admin", "crm_manager", "content_manager"}

\* 'kw in perm.lower()': substring search (the codenames are lower case).
Contains(s, kw) ==
    \E i \in 1..(Len(s) - Len(kw) + 1) : SubSeq(s, i, i + Len(kw) - 1) = kw

ContentKeywords ==
    {"image", "file", "news", "page", "diagram", "analytics",
     "section", "contact", "phone", "email", "address", "social"}

\* A faulty has_perm that also grants the content keywords to crm_manager.
has_perm_CrmContent(u, perm) ==
    IF ~u.is_authenticated THEN FALSE
    ELSE IF is_admin(u) THEN TRUE
    ELSE IF Contains(perm, "application") /\ is_crm_manager(u) THEN TRUE
    ELSE IF (\E kw \in ContentKeywords : Contains(perm, kw))
            /\ (is_content_manager(u) \/ is_crm_manager(u))
         THEN TRUE
    ELSE FALSE

\* User.has_perm; the AnonymousUser has no permission at all.
has_perm(u, perm) ==
    IF ~u.is_authenticated THEN FALSE
    ELSE IF is_admin(u) THEN TRUE
    ELSE IF Contains(perm, "application") /\ is_crm_manager(u) THEN TRUE
    ELSE IF (\E kw \in ContentKeywords : Contains(perm, kw)) /\ is_content_manager(u)
         THEN TRUE
    ELSE FALSE

\* ------------------------------------------------------ core.mixins

\* BaseAccessMixin.get_user_role
get_user_role(u) ==
    IF ~u.is_authenticated \/ ~is_staff(u) THEN None ELSE u.role

\* BaseAccessMixin._has_role_permission: 'role in allowed_roles if role else False'
\* A faulty _has_role_permission that grants when there is no role.
has_role_permission_FailOpen(u, allowed_roles) ==
    LET role == get_user_role(u)
    IN  IF role # None /\ role # "" THEN role \in allowed_roles ELSE TRUE

has_role_permission(u, allowed_roles) ==
    LET role == get_user_role(u)
    IN  IF role # None /\ role # "" THEN role \in allowed_roles ELSE FALSE

Ops == {"module", "view", "add", "change", "delete"}

CrudOps == {"view", "add", "change", "delete"}

AdminOnlyAccessMixin(u, op) == has_role_permission(u, {"admin"})

\* A faulty ContentManagerAccessMixin that also lists crm_manager.
ContentManagerAccessMixin_CrmToo(u, op) ==
    has_role_permission(u, {"admin", "content_manager", "crm_manager"})

ContentManagerAccessMixin(u, op) ==
    has_role_permission(u, {"admin", "content_manager"})

ApplicationsCRMAccessMixin(u, op) ==
    has_role_permission(u, {"admin", "crm_manager"})

SiteSettingsAccessMixin(u, op) ==
    IF op \in {"add", "delete"} THEN FALSE
    ELSE has_role_permission(u, {"admin", "content_manager"})

\* A faulty HistoryAccessMixin that also lists content_manager.
HistoryAccessMixin_ContentToo(u, op) ==
    IF op \in {"add", "change"} THEN FALSE
    ELSE has_role_permission(u, {"admin", "content_manager"})

HistoryAccessMixin(u, op) ==
    IF op \in {"add", "change"} THEN FALSE
    ELSE has_role_permission(u, {"admin"})

\* A faulty has_module_perms that also shows the accounts app to content managers.
has_module_perms_AccountsToo(u, app_label) ==
    IF ~u.is_authenticated THEN FALSE
    ELSE IF is_admin(u) THEN TRUE
    ELSE IF is_crm_manager(u) THEN app_label = "applications"
    ELSE IF is_content_manager(u)
         THEN app_label \in {"core", "main_page", "dynamic_pages",
                             "business_analytics", "news", "contacts", "accounts"}
    ELSE FALSE

\* User.has_module_perms
has_module_perms(u, app_label) ==
    IF ~u.is_authenticated THEN FALSE
    ELSE IF is_admin(u) THEN TRUE
    ELSE IF is_crm_manager(u) THEN app_label = "applications"
    ELSE IF is_content_manager(u)
         THEN app_label \in {"core", "main_page", "dynamic_pages",
                             "business_analytics", "news", "contacts"}
    ELSE FALSE

\* ------------------------------------------------- the admin registry

\* The registered admin classes: the model each is registered for and its
\* method resolution order, as far as the permission methods are concerned.
ContentMro(cls) == <<cls, "ContentManagerAccessMixin", "ModelAdmin">>

SoloContentMro(cls) ==
    <<cls, "ContentManagerAccessMixin", "SingletonModelAdmin", "ModelAdmin">>

AdminClasses ==
    [ UserAdmin |-> [app |-> "accounts", model |-> "user",
                     mro |-> <<"UserAdmin", "AdminOnlyAccessMixin", "ModelAdmin">>],
      CustomLogEntryAdmin |-> [app |-> "admin", model |-> "logentry",
                     mro |-> <<"CustomLogEntryAdmin", "HistoryAccessMixin", "ModelAdmin">>],
      ApplicationAdmin |-> [app |-> "applications", model |-> "application",
                     mro |-> <<"ApplicationAdmin", "ApplicationsCRMAccessMixin", "ModelAdmin">>],
      DiagramAdmin |-> [app |-> "business_analytics", model |-> "diagram",
                     mro |-> ContentMro("DiagramAdmin")],
      PhoneAdmin |-> [app |-> "contacts", model |-> "phone",
                     mro |-> ContentMro("PhoneAdmin")],
      EmailAdmin |-> [app |-> "contacts", model |-> "email",
                     mro |-> ContentMro("EmailAdmin")],
      AddressAdmin |-> [app |-> "contacts", model |-> "address",
                     mro |-> ContentMro("AddressAdmin")],
      SocialMediaAdmin |-> [app |-> "contacts", model |-> "socialmedia",
                     mro |-> ContentMro("SocialMediaAdmin")],
      ImageAdmin |-> [app |-> "core", model |-> "image",
                     mro |-> ContentMro("ImageAdmin")],
      FileAdmin |-> [app |-> "core", model |-> "file",
                     mro |-> ContentMro("FileAdmin")],
      NewsAdmin |-> [app |-> "news", model |-> "news",
                     mro |-> ContentMro("NewsAdmin")],
      AboutSectionAdmin |-> [app |-> "dynamic_pages", model |-> "aboutsection",
                     mro |-> ContentMro("AboutSectionAdmin")],
      ServiceSectionAdmin |-> [app |-> "dynamic_pages", model |-> "servicesection",
                     mro |-> ContentMro("ServiceSectionAdmin")],
      DocumentSectionAdmin |-> [app |-> "dynamic_pages", model |-> "documentsection",
                     mro |-> ContentMro("DocumentSectionAdmin")],
      SiteSettingsAdmin |-> [app |-> "core", model |-> "sitesettings",
                     mro |-> <<"SiteSettingsAdmin", "SiteSettingsAccessMixin",
                               "SingletonModelAdmin", "ModelAdmin">>],
      AboutPageAdmin |-> [app |-> "dynamic_pages", model |-> "aboutpage",
                     mro |-> SoloContentMro("AboutPageAdmin")],
      ServicesPageAdmin |-> [app |-> "dynamic_pages", model |-> "servicespage",
                     mro |-> SoloContentMro("ServicesPageAdmin")],
      DocumentsPageAdmin |-> [app |-> "dynamic_pages", model |-> "documentspage",
                     mro |-> SoloContentMro("DocumentsPageAdmin")],
      HeroBlockAdmin |-> [app |-> "main_page", model |-> "heroblock",
                     mro |-> SoloContentMro("HeroBlockAdmin")],
      AboutBlockAdmin |-> [app |-> "main_page", model |-> "aboutblock",
                     mro |-> SoloContentMro("AboutBlockAdmin")],
      AdvantageBlockAdmin |-> [app |-> "main_page", model |-> "advantageblock",
                     mro |-> SoloContentMro("AdvantageBlockAdmin")],
      AnalyticsBlockAdmin |-> [app |-> "main_page", model |-> "analyticsblock",
                     mro |-> SoloContentMro("AnalyticsBlockAdmin")],
      PartnersBlockAdmin |-> [app |-> "main_page", model |-> "partnersblock",
                     mro |-> SoloContentMro("PartnersBlockAdmin")],
      ContactsBlockAdmin |-> [app |-> "main_page", model |-> "contactsblock",
                     mro |-> SoloContentMro("ContactsBlockAdmin")] ]

Admins == DOMAIN AdminClasses

AccessMixins ==
    {"AdminOnlyAccessMixin", "ContentManagerAccessMixin",
     "ApplicationsCRMAccessMixin", "SiteSettingsAccessMixin", "HistoryAccessMixin"}

\* The permission methods (by operation) that a class defines in its own body.
ClassDefines(cls) ==
    CASE cls \in AccessMixins -> Ops
      [] cls \in {"AboutPageAdmin", "ServicesPageAdmin", "DocumentsPageAdmin"} -> {"add"}
      [] cls = "CustomLogEntryAdmin" -> {"add", "change"}
      [] cls = "SingletonModelAdmin" -> {"add", "delete"}
      [] cls = "ModelAdmin" -> Ops
      [] OTHER -> {}

\* Python's attribute lookup: the first class of the MRO that defines the method.
MroResolve(mro, op) ==
    LET i == CHOOSE k \in 1..Len(mro) :
                 /\ op \in ClassDefines(mro[k])
                 /\ \A j \in 1..(k - 1) : op \notin ClassDefines(mro[j])
    IN  mro[i]

\* Django's permission codename for a model: '<app>.<action>_<model>'.
Codename(opts, action) == opts.app \o "." \o action \o "_" \o opts.model

\* django.contrib.admin's own has_*_permission methods, which ask User.has_perm.
ModelAdmin(opts, u, op) ==
    CASE op = "module" -> has_module_perms(u, opts.app)
      [] op = "view" -> has_perm(u, Codename(opts, "view"))
                        \/ has_perm(u, Codename(opts, "change"))
      [] OTHER -> has_perm(u, Codename(opts, op))

\* The body of the permission method of class cls, called on an admin for opts.
ClassMethod(cls, opts, u, op) ==
    CASE cls = "AdminOnlyAccessMixin" -> AdminOnlyAccessMixin(u, op)
      [] cls = "ContentManagerAccessMixin" -> ContentManagerAccessMixin(u, op)
      [] cls = "ApplicationsCRMAccessMixin" -> ApplicationsCRMAccessMixin(u, op)
      [] cls = "SiteSettingsAccessMixin" -> SiteSettingsAccessMixin(u, op)
      [] cls = "HistoryAccessMixin" -> HistoryAccessMixin(u, op)
      [] cls \in {"AboutPageAdmin", "ServicesPageAdmin", "DocumentsPageAdmin",
                  "CustomLogEntryAdmin", "SingletonModelAdmin"} -> FALSE
      [] OTHER -> ModelAdmin(opts, u, op)

\* For each admin class and operation, the class whose method is the one called.
DefiningClass == [a \in Admins |-> [op \in Ops |-> MroResolve(AdminClasses[a].mro, op)]]

\* admin.has_<op>_permission(request) of a registered admin class.
has_permission(a, u, op) == ClassMethod(DefiningClass[a][op], AdminClasses[a], u, op)

\* ------------------------------------------------------------ inlines

\* The inline classes: their model and the admins whose 'inlines' list them.
InlineClasses ==
    [ DiagramCategoryInline |-> [app |-> "business_analytics", model |-> "diagramcategory",
                                 parents |-> {"DiagramAdmin"}],
      AdvantageInline |-> [app |-> "main_page", model |-> "advantage",
                           parents |-> {"AdvantageBlockAdmin"}],
      PartnerInline |-> [app |-> "main_page", model |-> "partner",
                         parents |-> {"PartnersBlockAdmin"}],
      SectionImageInline |-> [app |-> "dynamic_pages", model |-> "sectionimage",
                              parents |-> {"AboutSectionAdmin", "ServiceSectionAdmin",
                                           "DocumentSectionAdmin"}],
      SectionFileInline |-> [app |-> "dynamic_pages", model |-> "sectionfile",
                             parents |-> {"AboutSectionAdmin", "ServiceSectionAdmin",
                                          "DocumentSectionAdmin"}],
      NewsImageInline |-> [app |-> "news", model |-> "newsimage",
                           parents |-> {"NewsAdmin"}],
      NewsFileInline |-> [app |-> "news", model |-> "newsfile",
                          parents |-> {"NewsAdmin"}] ]

Inlines == DOMAIN InlineClasses

\* InlineAccessMixin: add, change and delete ask the parent's registered admin;
\* has_view_permission is not defined by the mixin and is Django's own.
InlineAccessMixin(inline, parent, u, op) ==
    IF op \in {"add", "change", "delete"}
    THEN IF parent \in Admins
         THEN has_permission(parent, u, op)
         ELSE ModelAdmin(InlineClasses[inline], u, op)
    ELSE ModelAdmin(InlineClasses[inline], u, op)

\* ------------------------------------------------------ SpecAccess

\* The initial values of the variables of the other subsystems.
SingletonTypes ==
    {"SiteSettings", "AboutPage", "ServicesPage", "DocumentsPage", "HeroBlock",
     "AboutBlock", "AdvantageBlock", "AnalyticsBlock", "PartnersBlock", "ContactsBlock"}

SettingsFields ==
    {"site_name", "company_full_name", "logo", "favicon", "notification_emails",
     "default_email_from", "recaptcha_site_key", "recaptcha_secret_key",
     "yandex_metrica_id"}

InitUsers == users = [i \in UserIds |-> NoRow]

InitRequest == request = NoRequest

InitInstances == instances = [t \in SingletonTypes |-> {1}]

\* The values a settings field takes here: its initial one and another one.
SettingsValues == {"a", "b"}

InitSettings == siteSettings = [f \in SettingsFields |-> "a"]

InitDiagrams == diagrams = [i \in 1..MaxDiagrams |-> NoRow]

InitApplications == applications = [i \in 1..MaxApplications |-> NoRow] /\ now = 0

InitNotified == notified = [i \in 1..MaxApplications |-> 0]

InitCategories == categories = <<>>

InitSectionMedia == sectionMedia = <<>>

InitMedia == media = {}

InitStorage == storage = <<>>

InitNews == news = <<>>

InitTables == tables = <<>>

InitWriters ==
    writers = [w \in 1..MaxWriters |->
                  [pc |-> "idle", path |-> "none", diagram |-> 0, count |-> 0]]

\* No content row stored, no notification attempted.
InitContent ==
    /\ InitNotified /\ InitCategories /\ InitSectionMedia
    /\ InitMedia /\ InitStorage /\ InitNews
    /\ InitTables /\ InitWriters

\* What a caller may pass as the role of a new account.
RoleInputs == ROLE_CHOICES \cup {Omitted, "guest"}

\* User(...).save() of a new account: the role field takes its default when no
\* role is given, and full_clean() rejects a role outside ROLE_CHOICES.
CreateUser(id, roleArg) ==
    /\ users[id] = NoRow
    /\ LET role == IF roleArg = Omitted THEN RoleDefault ELSE roleArg
       IN  users' = IF role \in ROLE_CHOICES
                    THEN [users EXCEPT ![id] = [exists |-> TRUE, role |-> role,
                                                role_given |-> roleArg # Omitted]]
                    ELSE users
    /\ UNCHANGED <<request, instances, siteSettings, diagrams, applications, now, notified, contentVars>>

\* Who may send a request: nobody logged in, or a stored account.
Requesters == {AnonymousUser} \cup {LoggedIn(users[i]) : i \in {j \in UserIds : users[j] # NoRow}}

\* The admin site asks a registered admin class for a permission.
CheckPermission(u, a, op) ==
    /\ request' = [view |-> "permission", user |-> u, admin |-> a,
                   inline |-> None, op |-> op,
                   decision |-> has_permission(a, u, op),
                   parent_decision |-> has_permission(a, u, op)]
    /\ UNCHANGED <<users, instances, siteSettings, diagrams, applications, now, notified, contentVars>>

\* The admin site asks an inline of a parent admin for a permission.
CheckInlinePermission(u, inline, parent, op) ==
    /\ request' = [view |-> "inline", user |-> u, admin |-> parent,
                   inline |-> inline, op |-> op,
                   decision |-> InlineAccessMixin(inline, parent, u, op),
                   parent_decision |-> has_permission(parent, u, op)]
    /\ UNCHANGED <<users, instances, siteSettings, diagrams, applications, now, notified, contentVars>>

InitAccess ==
    /\ InitUsers /\ InitRequest /\ InitInstances /\ InitSettings
    /\ InitDiagrams /\ InitApplications /\ InitContent

NextAccess ==
    \/ \E id \in UserIds, roleArg \in RoleInputs : CreateUser(id, roleArg)
    \/ \E u \in Requesters, a \in Admins, op \in Ops : CheckPermission(u, a, op)
    \/ \E u \in Requesters, inline \in Inlines, op \in CrudOps :
          \E parent \in InlineClasses[inline].parents :
              CheckInlinePermission(u, inline, parent, op)

SpecAccess == InitAccess /\ [][NextAccess]_vars

\* ---------------------------------------------------- SpecSingleton

\* The admin class registered for each singleton type.
AdminOf(t) == t \o "Admin"

\* The singleton types whose model extends solo's SingletonModel; the
\* main-page blocks extend StatusModel only.
SoloModels == {"SiteSettings", "AboutPage", "ServicesPage", "DocumentsPage"}

MainPageBlocks ==
    {"HeroBlock", "AboutBlock", "AdvantageBlock", "AnalyticsBlock",
     "PartnersBlock", "ContactsBlock"}

DynamicPages == {"AboutPage", "ServicesPage", "DocumentsPage"}

Pks == 1..MaxPk

\* One logged-in account of each role, and the anonymous visitor.
Staff == {[is_authenticated |-> TRUE, role |-> r, role_given |-> TRUE] : r \in ROLE_CHOICES}

Visitors == Staff \cup {AnonymousUser}

\* create_default_pages_and_sections: get_or_create(pk=1) of the three pages.
PostMigrateDynamicPages ==
    /\ instances' = [t \in SingletonTypes |->
                        IF t \in DynamicPages THEN instances[t] \cup {1} ELSE instances[t]]
    /\ UNCHANGED <<users, request, siteSettings, diagrams, applications, now, notified, contentVars>>

\* create_main_page_blocks: get_or_create(pk=1) of the six blocks, HeroBlock
\* first. Its defaults name 'news_display_type', which is no field of HeroBlock:
\* when the HeroBlock row is missing the create raises and the handler ends.
PostMigrateMainPage ==
    /\ instances' = IF 1 \in instances["HeroBlock"]
                    THEN [t \in SingletonTypes |->
                             IF t \in MainPageBlocks THEN instances[t] \cup {1}
                             ELSE instances[t]]
                    ELSE instances
    /\ UNCHANGED <<users, request, siteSettings, diagrams, applications, now, notified, contentVars>>

\* The change view of a SingletonModelAdmin, opened by a staff account: it
\* starts with get_or_create(pk=1).
SoloChangeView(t, u) ==
    /\ u.is_authenticated /\ is_staff(u)
    /\ instances' = [instances EXCEPT ![t] = @ \cup {1}]
    /\ UNCHANGED <<users, request, siteSettings, diagrams, applications, now, notified, contentVars>>

\* The add view of the admin of a singleton type. A SingletonModel saves itself
\* under pk 1; a block is an ordinary model and is inserted under a new key.
AdminAdd(t, u, pk) ==
    /\ pk \notin instances[t]
    /\ instances' = IF has_permission(AdminOf(t), u, "add")
                    THEN [instances EXCEPT ![t] = @ \cup {IF t \in SoloModels THEN 1 ELSE pk}]
                    ELSE instances
    /\ UNCHANGED <<users, request, siteSettings, diagrams, applications, now, notified, contentVars>>

\* The delete view of the admin of a singleton type.
AdminDelete(t, u, pk) ==
    /\ pk \in instances[t]
    /\ instances' = IF has_permission(AdminOf(t), u, "delete")
                    THEN [instances EXCEPT ![t] = @ \ {pk}]
                    ELSE instances
    /\ UNCHANGED <<users, request, siteSettings, diagrams, applications, now, notified, contentVars>>

\* A fresh database: no singleton row yet.
InitSingleton ==
    /\ InitUsers /\ InitRequest /\ InitSettings /\ InitDiagrams /\ InitApplications /\ InitContent
    /\ instances = [t \in SingletonTypes |-> {}]

NextSingleton ==
    \/ PostMigrateDynamicPages
    \/ PostMigrateMainPage
    \/ \E t \in SingletonTypes, u \in Visitors : SoloChangeView(t, u)
    \/ \E t \in SingletonTypes, u \in Visitors, pk \in Pks : AdminAdd(t, u, pk)
    \/ \E t \in SingletonTypes, u \in Visitors, pk \in Pks : AdminDelete(t, u, pk)

SpecSingleton == InitSingleton /\ [][NextSingleton]_vars

\* ------------------------------------------------- phone validation

\* Strings are matched character by character: Char(s, p) is s[p-1] in Python.
Char(s, p) == SubSeq(s, p, p)

Digits == {"0", "1", "2", "3", "4", "5", "6", "7", "8", "9"}

\* What \s matches, among the characters used here.
Whitespace == {" ", "\t", "\n"}

\* re.sub(r'[^\d\+]', '', s): the digits and the plus signs of s, in order.
RECURSIVE clean_phone(_)
clean_phone(s) ==
    IF s = "" THEN ""
    ELSE (IF Char(s, 1) \in Digits \cup {"+"} THEN Char(s, 1) ELSE "")
            \o clean_phone(SubSeq(s, 2, Len(s)))

\* One step of a match: from the positions in from, the positions after one
\* character of set (One), or after at most one (Optional).
One(s, from, set) == {p + 1 : p \in {q \in from : q <= Len(s) /\ Char(s, q) \in set}}

Optional(s, from, set) == from \cup One(s, from, set)

\* The positions after the optional group (\+7|7|8)?
CountryPrefix(s, from) ==
    from \cup One(s, from, {"7", "8"})
         \cup {p + 2 : p \in {q \in from : q + 1 <= Len(s) /\ SubSeq(s, q, q + 1) = "+7"}}

\* '$' matches at the end of the string and before a newline that ends it.
AtEnd(s, positions) ==
    \/ Len(s) + 1 \in positions
    \/ Len(s) \in positions /\ Char(s, Len(s)) = "\n"

\* re.match of
\* ^(\+7|7|8)?[\s\-]?\(?[489][0-9]{2}\)?[\s\-]?[0-9]{3}[\s\-]?[0-9]{2}[\s\-]?[0-9]{2}$
phone_regex(s) ==
    LET sep == Whitespace \cup {"-"}
        p1 == Optional(s, Optional(s, CountryPrefix(s, {1}), sep), {"("})
        p2 == One(s, One(s, One(s, p1, {"4", "8", "9"}), Digits), Digits)
        p3 == Optional(s, Optional(s, p2, {")"}), sep)
        p4 == One(s, One(s, One(s, p3, Digits), Digits), Digits)
        p5 == One(s, One(s, Optional(s, p4, sep), Digits), Digits)
        p6 == One(s, One(s, Optional(s, p5, sep), Digits), Digits)
    IN  AtEnd(s, p6)

\* A faulty _validate_phone that stores the cleaned value behind a leading 8.
validate_phone_Prefixing(s) ==
    IF phone_regex(clean_phone(s))
    THEN [accepted |-> TRUE, value |-> "8" \o clean_phone(s)]
    ELSE [accepted |-> FALSE, value |-> s]

\* _validate_phone of User, Application and contacts.Phone (the three bodies
\* are the same): the cleaned value replaces the field when the pattern
\* matches it, otherwise a ValidationError is raised and the field is as given.
validate_phone(s) ==
    IF phone_regex(clean_phone(s))
    THEN [accepted |-> TRUE, value |-> clean_phone(s)]
    ELSE [accepted |-> FALSE, value |-> s]

User_validate_phone(s) == validate_phone(s)

Application_validate_phone(s) == validate_phone(s)

Phone_validate_phone(s) == validate_phone(s)

\* -------------------------------------------------------- SpecPhone

\* Phone numbers as typed: a country prefix, an area code, seven more digits,
\* with and without separators, and malformed variants of each part.
PhonePrefixes == {"", "+7", "7", "8", "+", "+8"}

PhoneOpeners == {"", " ", " ("}

PhoneCodes == {"999", "495", "123"}

PhoneClosers == {"", ") ", "-"}

PhoneTails == {"1234567", "123-45-67", "123 45 67\n", "123456", "12345678",
               "123+4567", "123-45-6a"}

PhoneInputs ==
    {a \o b \o c \o e \o f :
        a \in PhonePrefixes, b \in PhoneOpeners, c \in PhoneCodes,
        e \in PhoneClosers, f \in PhoneTails}

PhoneModels == {"User", "Application", "Phone"}

\* The _validate_phone of the named model.
ValidatePhoneOf(model, s) ==
    CASE model = "User" -> User_validate_phone(s)
      [] model = "Application" -> Application_validate_phone(s)
      [] model = "Phone" -> Phone_validate_phone(s)

\* The phone of request is validated, and the value that leaves in the field
\* is validated again.
ValidatePhoneTwice ==
    /\ request.view = "phone_input"
    /\ request' = [view |-> "phone", model |-> request.model, input |-> request.input,
                   first |-> ValidatePhoneOf(request.model, request.input),
                   second |-> ValidatePhoneOf(request.model,
                                 ValidatePhoneOf(request.model, request.input).value)]
    /\ UNCHANGED <<users, instances, siteSettings, diagrams, applications, now,
                   notified, contentVars>>

\* Any model and any phone of PhoneInputs may be the one to validate.
InitPhone ==
    /\ request \in {[view |-> "phone_input", model |-> model, input |-> input] :
                       model \in PhoneModels, input \in PhoneInputs}
    /\ InitUsers /\ InitInstances /\ InitSettings
    /\ InitDiagrams /\ InitApplications /\ InitContent

NextPhone == ValidatePhoneTwice

SpecPhone == InitPhone /\ [][NextPhone]_vars

\* -------------------------------------------------- SpecApplication

STATUS_CHOICES == {"new", "in_progress", "processed", "rejected"}

\* What a caller may put in status: a choice, or a value that is none.
StatusInputs == STATUS_CHOICES \cup {"archived"}

\* A DateTimeField(null=True) is a set: {} is None, {t} is the timestamp t.
Times == 0..MaxTime

ProcessedAtInputs == {{}} \cup {{t} : t \in Times}

ApplicationIds == 1..MaxApplications

StoredApplications == {i \in ApplicationIds : applications[i] # NoRow}

Letters ==
    {"a", "b", "c", "d", "e", "f", "g", "h", "i", "j", "k", "l", "m",
     "n", "o", "p", "q", "r", "s", "t", "u", "v", "w", "x", "y", "z",
     "A", "B", "C", "D", "E", "F", "G", "H", "I", "J", "K", "L", "M",
     "N", "O", "P", "Q", "R", "S", "T", "U", "V", "W", "X", "Y", "Z"}

\* The positions after one or more characters of the set, started in from.
Plus(s, from, set) ==
    {q \in 2..(Len(s) + 1) :
        \E p \in from : p < q /\ \A k \in p..(q - 1) : Char(s, k) \in set}

\* re.match of ^[a-zA-Z0-9._%+-]+@[a-zA-Z0-9.-]+\.[a-zA-Z]{2,}$
email_regex(s) ==
    LET local  == Plus(s, {1}, Letters \cup Digits \cup {".", "_", "%", "+", "-"})
        at     == One(s, local, {"@"})
        domain == Plus(s, at, Letters \cup Digits \cup {".", "-"})
        dot    == One(s, domain, {"."})
        tld    == Plus(s, One(s, dot, Letters), Letters)
    IN  AtEnd(s, tld)

\* Application._validate_email: the error it raises, if any.
Application_validate_email(email) == IF email_regex(email) THEN {} ELSE {"email"}

\* A clean() that lets an application without any contact through.
Application_clean_NoContactCheck(phone, email) ==
    IF phone # "" /\ ~Application_validate_phone(phone).accepted
    THEN [errors |-> {"phone"}, phone |-> phone]
    ELSE [errors |-> IF email # "" THEN Application_validate_email(email) ELSE {},
          phone  |-> IF phone # "" THEN Application_validate_phone(phone).value ELSE phone]

\* Application.clean: the first ValidationError it raises ("__all__" is the
\* non-field error) and the phone it leaves on the instance.
Application_clean(phone, email) ==
    IF phone = "" /\ email = ""
    THEN [errors |-> {"__all__"}, phone |-> phone]
    ELSE IF phone # "" /\ ~Application_validate_phone(phone).accepted
    THEN [errors |-> {"phone"}, phone |-> phone]
    ELSE [errors |-> IF email # "" THEN Application_validate_email(email) ELSE {},
          phone  |-> IF phone # "" THEN Application_validate_phone(phone).value ELSE phone]

\* Model.full_clean on an Application: the errors of clean_fields (the status
\* choices, max_length of phone) together with those of clean().
Application_full_clean(status, phone, email) ==
    LET cleaned == Application_clean(phone, email)
    IN  [errors |-> (IF status \in STATUS_CHOICES THEN {} ELSE {"status"})
                       \cup (IF Len(phone) <= 20 THEN {} ELSE {"phone"})
                       \cup cleaned.errors,
         phone  |-> cleaned.phone]

\* What may happen to one notification.
DeliveryOutcomes ==
    {"sent", "no_settings", "no_recipients", "invalid_recipients",
     "template_error", "smtp_error", "crash"}

\* EmailService.send_application_notification under the given outcome: what it
\* returns, what it logs, whether an exception leaves it, whether a message
\* went out. A missing template falls back to the inline message and goes on to
\* send; "crash" is an exception outside its own try blocks.
send_application_notification(outcome) ==
    CASE outcome = "sent" ->
           [result |-> {TRUE}, logged |-> {"info"}, raises |-> FALSE, sent |-> TRUE]
      [] outcome \in {"no_settings", "no_recipients", "invalid_recipients"} ->
           [result |-> {FALSE}, logged |-> {"warning"}, raises |-> FALSE, sent |-> FALSE]
      [] outcome = "template_error" ->
           [result |-> {TRUE}, logged |-> {"error", "info"}, raises |-> FALSE, sent |-> TRUE]
      [] outcome = "smtp_error" ->
           [result |-> {FALSE}, logged |-> {"error"}, raises |-> FALSE, sent |-> FALSE]
      [] OTHER ->
           [result |-> {}, logged |-> {}, raises |-> TRUE, sent |-> FALSE]

\* A notification rule that notifies on every save.
NotifyOnSave_Always(is_new) == TRUE

\* Application.save: "if is_new" around the notification.
NotifyOnSave(is_new) == is_new

\* A faulty processed_at rule that never clears a supplied value.
ProcessedAtOnSave_KeepSupplied(status, processed_at, t) ==
    IF status = "processed" /\ processed_at = {} THEN {t} ELSE processed_at

\* Application.save, the processed_at rule: t is timezone.now().
ProcessedAtOnSave(status, processed_at, t) ==
    IF status = "processed" /\ processed_at = {} THEN {t}
    ELSE IF status # "processed" THEN {}
    ELSE processed_at

\* The instances handed to save(): any status and processed_at with a contact
\* that is fine, and new inquiries with any contacts.
ContactPhones == {"", "+7 (999) 123-45-67", "12345"}

ContactEmails == {"", "client@example.ru", "client.example.ru"}

ApplicationInstances ==
    [status : StatusInputs, processed_at : ProcessedAtInputs,
     phone : {"+7 (999) 123-45-67"}, email : {""}]
    \cup [status : {"new"}, processed_at : {{}},
          phone : ContactPhones, email : ContactEmails]

\* full_clean() of each instance handed to save(), computed once.
CleanedInstances ==
    {[instance |-> instance,
      cleaned  |-> Application_full_clean(instance.status, instance.phone, instance.email)] :
        instance \in ApplicationInstances}

full_clean(instance) ==
    (CHOOSE row \in CleanedInstances : row.instance = instance).cleaned

\* Application.save() of an instance; an instance without a primary key
\* (is_new) takes the next one. processed_at is recomputed, full_clean() raises
\* before the row is written, and after the row is written the notification is
\* attempted for a new instance only, inside try/except Exception. outcome is
\* what happens to the notification, "none" when none is attempted.
ApplicationSave(id, instance, outcome) ==
    /\ applications[id] = NoRow => StoredApplications = 1..(id - 1)
    /\ LET is_new == applications[id] = NoRow
           cleaned == full_clean(instance)
           valid == cleaned.errors = {}
           attempt == valid /\ NotifyOnSave(is_new)
       IN  /\ attempt <=> outcome # "none"
           /\ applications' =
                 IF valid
                 THEN [applications EXCEPT ![id] =
                          [exists |-> TRUE, status |-> instance.status,
                           processed_at |-> ProcessedAtOnSave(instance.status,
                                                              instance.processed_at, now),
                           phone |-> cleaned.phone, email |-> instance.email]]
                 ELSE applications
           /\ notified' = IF attempt THEN [notified EXCEPT ![id] = @ + 1] ELSE notified
           /\ request' = [view |-> "save", id |-> id, status |-> instance.status,
                          processed_at |-> instance.processed_at,
                          phone |-> instance.phone, email |-> instance.email,
                          at |-> now, saved |-> valid, errors |-> cleaned.errors,
                          raised |-> ~valid, is_new |-> is_new,
                          was_processed |-> (~is_new /\ applications[id].status = "processed"),
                          notification |-> attempt,
                          outcome |-> outcome,
                          logged |-> IF ~attempt THEN {}
                                     ELSE IF send_application_notification(outcome).raises
                                     THEN {"error"}
                                     ELSE send_application_notification(outcome).logged]
    /\ UNCHANGED <<users, instances, siteSettings, diagrams, now, contentVars>>

\* queryset.update(status=..., processed_at=...) over the selected rows.
QuerySetUpdate(queryset, status, processed_at) ==
    /\ queryset # {}
    /\ applications' = [i \in ApplicationIds |->
                           IF i \in queryset
                           THEN [applications[i] EXCEPT !.status = status,
                                                        !.processed_at = processed_at]
                           ELSE applications[i]]
    /\ request' = [view |-> "mark", status |-> status, queryset |-> queryset, at |-> now]
    /\ UNCHANGED <<users, instances, siteSettings, diagrams, now, notified, contentVars>>

mark_as_new(queryset) == QuerySetUpdate(queryset, "new", {})

mark_in_progress(queryset) == QuerySetUpdate(queryset, "in_progress", {})

mark_processed(queryset) == QuerySetUpdate(queryset, "processed", {now})

mark_rejected(queryset) == QuerySetUpdate(queryset, "rejected", {})

\* Time passes between two requests.
Tick ==
    /\ now < MaxTime
    /\ now' = now + 1
    /\ UNCHANGED <<users, request, instances, siteSettings, diagrams, applications, notified, contentVars>>

InitApplication ==
    /\ InitUsers /\ InitRequest /\ InitInstances /\ InitSettings
    /\ InitDiagrams /\ InitApplications /\ InitContent

NextApplication ==
    \/ \E id \in ApplicationIds, instance \in ApplicationInstances,
          outcome \in DeliveryOutcomes \cup {"none"} :
             ApplicationSave(id, instance, outcome)
    \/ \E queryset \in SUBSET StoredApplications : mark_as_new(queryset)
    \/ \E queryset \in SUBSET StoredApplications : mark_in_progress(queryset)
    \/ \E queryset \in SUBSET StoredApplications : mark_processed(queryset)
    \/ \E queryset \in SUBSET StoredApplications : mark_rejected(queryset)
    \/ Tick

SpecApplication == InitApplication /\ [][NextApplication]_vars

\* ----------------------------------------------------- SpecSettings

\* The fieldset groups of SiteSettingsAccessMixin.get_fieldsets.
BrandingFields == {"site_name", "company_full_name", "logo", "favicon"}

NotificationFields == {"notification_emails", "default_email_from"}

IntegrationFields == {"recaptcha_site_key", "recaptcha_secret_key", "yandex_metrica_id"}

\* A faulty get_fieldsets that lists every group for every role.
get_fieldsets_AdminForAll(u) ==
    BrandingFields \cup NotificationFields \cup IntegrationFields

\* SiteSettingsAccessMixin.get_fieldsets, flattened to the fields it lists;
\* for any other role Django lists every field of the model.
get_fieldsets(u) ==
    IF get_user_role(u) = "admin"
    THEN BrandingFields \cup NotificationFields \cup IntegrationFields
    ELSE IF get_user_role(u) = "content_manager" THEN BrandingFields
    ELSE SettingsFields

\* SiteSettingsAccessMixin.get_readonly_fields; the admin class itself declares
\* no read-only field.
get_readonly_fields(u) ==
    IF get_user_role(u) = "content_manager"
    THEN {"notification_emails", "default_email_from", "recaptcha_site_key",
          "recaptcha_secret_key", "yandex_metrica_id"}
    ELSE {}

\* The fields of the change form: those of the fieldsets that are not read-only.
FormFields(u) == get_fieldsets(u) \ get_readonly_fields(u)

\* GET of the SiteSettings change view: the page shows the fieldsets.
ViewSiteSettings(u) ==
    /\ request' = [view |-> "settings", op |-> "view", user |-> u,
                   decision |-> has_permission("SiteSettingsAdmin", u, "view"),
                   shown |-> IF has_permission("SiteSettingsAdmin", u, "view")
                             THEN get_fieldsets(u) ELSE {},
                   changed |-> {}]
    /\ UNCHANGED <<users, instances, siteSettings, diagrams, applications, now, notified, contentVars>>

\* POST of the SiteSettings change view: posted gives a value to every field a
\* client may name; the form takes the values of its own fields only.
ChangeSiteSettings(u, posted) ==
    /\ siteSettings' = IF has_permission("SiteSettingsAdmin", u, "change")
                       THEN [f \in SettingsFields |->
                                IF f \in FormFields(u) THEN posted[f] ELSE siteSettings[f]]
                       ELSE siteSettings
    /\ request' = [view |-> "settings", op |-> "change", user |-> u,
                   decision |-> has_permission("SiteSettingsAdmin", u, "change"),
                   shown |-> IF has_permission("SiteSettingsAdmin", u, "change")
                             THEN get_fieldsets(u) ELSE {},
                   changed |->
                      (IF \E f \in BrandingFields : siteSettings'[f] # siteSettings[f]
                       THEN {"branding"} ELSE {})
                      \cup
                      (IF \E f \in SettingsFields \ BrandingFields :
                             siteSettings'[f] # siteSettings[f]
                       THEN {"other"} ELSE {})]
    /\ UNCHANGED <<users, instances, diagrams, applications, now, notified, contentVars>>

\* The add and delete views of the SiteSettings admin.
AddOrDeleteSiteSettings(u, op) ==
    /\ instances' = IF ~has_permission("SiteSettingsAdmin", u, op) THEN instances
                    ELSE IF op = "delete"
                    THEN [instances EXCEPT !["SiteSettings"] = {}]
                    ELSE [instances EXCEPT !["SiteSettings"] = @ \cup {1}]
    /\ request' = [view |-> "settings", op |-> op, user |-> u,
                   decision |-> has_permission("SiteSettingsAdmin", u, op),
                   shown |-> {}, changed |-> {}]
    /\ UNCHANGED <<users, siteSettings, diagrams, applications, now, notified, contentVars>>

\* What a client posts: the stored values, but for a few fields it wants changed.
OtherValue(v) == CHOOSE w \in SettingsValues : w # v

WantedChanges == {w \in SUBSET SettingsFields : Cardinality(w) <= MaxPostedChanges}

PostedForms ==
    {[f \in SettingsFields |->
         IF f \in wanted THEN OtherValue(siteSettings[f]) ELSE siteSettings[f]] :
     wanted \in WantedChanges}

InitSettingsSpec ==
    /\ InitUsers /\ InitRequest /\ InitInstances /\ InitSettings
    /\ InitDiagrams /\ InitApplications /\ InitContent

NextSettings ==
    \/ \E u \in Visitors : ViewSiteSettings(u)
    \/ \E u \in Visitors, posted \in PostedForms : ChangeSiteSettings(u, posted)
    \/ \E u \in Visitors, op \in {"add", "delete"} : AddOrDeleteSiteSettings(u, op)

SpecSettings == InitSettingsSpec /\ [][NextSettings]_vars

\* ------------------------------------------------------ SpecDiagram

MAX_ACTIVE_DIAGRAMS == 2

DiagramIds == 1..MaxDiagrams

StoredDiagrams == {i \in DiagramIds : diagrams[i] # NoRow}

\* Diagram.objects.filter(is_active=True)
ActiveDiagrams == {i \in StoredDiagrams : diagrams[i].is_active}

\* Diagram._validate_active_limit of an instance with this is_active; pk is {}
\* for an instance not saved yet and {id} otherwise. The result is the set of
\* fields the ValidationError names.
validate_active_limit(is_active, pk) ==
    IF is_active /\ Cardinality(ActiveDiagrams \ pk) >= MAX_ACTIVE_DIAGRAMS
    THEN {"is_active"}
    ELSE {}

\* Diagram.is_max_active_reached of a stored diagram.
is_max_active_reached(d) ==
    LET active_count == Cardinality(ActiveDiagrams)
    IN  (IF diagrams[d].is_active THEN active_count - 1 ELSE active_count)
            >= MAX_ACTIVE_DIAGRAMS

\* DiagramAdmin.get_readonly_fields(request, obj) for a stored obj.
DiagramAdmin_get_readonly_fields(d) ==
    IF is_max_active_reached(d) /\ ~diagrams[d].is_active THEN {"is_active"} ELSE {}

\* Primary keys are handed out in creation order.
NextDiagramId == Cardinality(StoredDiagrams) + 1

\* The first k rows of a queryset ordered by '-created_at': the k newest.
Newest(queryset, k) == {i \in queryset : Cardinality({j \in queryset : j > i}) < k}

\* POST of the add form of DiagramAdmin. unit_ok says whether the posted
\* measurement unit is acceptable; the form reports the errors of the model's
\* clean() and saves only when there is none.
AddDiagram(is_active, unit_ok) ==
    /\ NextDiagramId <= MaxDiagrams
    /\ LET errors == validate_active_limit(is_active, {})
                        \cup (IF unit_ok THEN {} ELSE {"measurement_unit"})
       IN  /\ diagrams' = IF errors = {}
                          THEN [diagrams EXCEPT ![NextDiagramId] =
                                   [exists |-> TRUE, is_active |-> is_active]]
                          ELSE diagrams
           /\ request' = [view |-> "diagram", op |-> "add",
                          requested |-> IF is_active THEN {NextDiagramId} ELSE {},
                          active_before |-> Cardinality(ActiveDiagrams),
                          errors |-> errors, level |-> None]
    /\ UNCHANGED <<users, instances, siteSettings, applications, now, notified, contentVars>>

\* POST of the change form of a stored diagram. A read-only is_active is not a
\* field of the form: the posted value is dropped and the stored one kept.
ChangeDiagram(d, is_active, unit_ok) ==
    /\ d \in StoredDiagrams
    /\ LET value == IF "is_active" \in DiagramAdmin_get_readonly_fields(d)
                    THEN diagrams[d].is_active
                    ELSE is_active
           errors == validate_active_limit(value, {d})
                        \cup (IF unit_ok THEN {} ELSE {"measurement_unit"})
       IN  /\ diagrams' = IF errors = {}
                          THEN [diagrams EXCEPT ![d].is_active = value]
                          ELSE diagrams
           /\ request' = [view |-> "diagram", op |-> "change",
                          requested |-> IF is_active /\ ~diagrams[d].is_active
                                        THEN {d} ELSE {},
                          active_before |-> Cardinality(ActiveDiagrams),
                          errors |-> errors, level |-> None]
    /\ UNCHANGED <<users, instances, siteSettings, applications, now, notified, contentVars>>

\* DiagramAdmin.make_active over the selected rows: the free slots are filled
\* with the newest inactive rows of the selection, each saved without
\* validation; the outcome is a message, never a form error.
make_active(queryset) ==
    /\ queryset # {}
    /\ LET active_count == Cardinality(ActiveDiagrams)
           available_slots == MAX_ACTIVE_DIAGRAMS - active_count
           inactive_diagrams == queryset \ ActiveDiagrams
           to_activate == Newest(inactive_diagrams, available_slots)
       IN  /\ diagrams' = IF available_slots <= 0 THEN diagrams
                          ELSE [i \in DiagramIds |->
                                   IF i \in to_activate
                                   THEN [diagrams[i] EXCEPT !.is_active = TRUE]
                                   ELSE diagrams[i]]
           /\ request' = [view |-> "diagram", op |-> "make_active",
                          requested |-> inactive_diagrams,
                          active_before |-> active_count,
                          errors |-> {},
                          level |-> IF available_slots <= 0 THEN "ERROR"
                                    ELSE IF to_activate = {} THEN "WARNING"
                                    ELSE "SUCCESS"]
    /\ UNCHANGED <<users, instances, siteSettings, applications, now, notified, contentVars>>

\* DiagramAdmin.make_inactive: update(is_active=False) of the active rows selected.
make_inactive(queryset) ==
    /\ queryset # {}
    /\ diagrams' = [i \in DiagramIds |->
                       IF i \in queryset \cap ActiveDiagrams
                       THEN [diagrams[i] EXCEPT !.is_active = FALSE]
                       ELSE diagrams[i]]
    /\ request' = [view |-> "diagram", op |-> "make_inactive",
                   requested |-> {}, active_before |-> Cardinality(ActiveDiagrams),
                   errors |-> {},
                   level |-> IF queryset \cap ActiveDiagrams # {} THEN "SUCCESS"
                             ELSE "WARNING"]
    /\ UNCHANGED <<users, instances, siteSettings, applications, now, notified, contentVars>>

InitDiagram ==
    /\ InitUsers /\ InitRequest /\ InitInstances /\ InitSettings
    /\ InitDiagrams /\ InitApplications /\ InitContent

NextDiagram ==
    \/ \E is_active \in BOOLEAN, unit_ok \in BOOLEAN : AddDiagram(is_active, unit_ok)
    \/ \E d \in DiagramIds, is_active \in BOOLEAN, unit_ok \in BOOLEAN :
          ChangeDiagram(d, is_active, unit_ok)
    \/ \E queryset \in SUBSET StoredDiagrams : make_active(queryset)
    \/ \E queryset \in SUBSET StoredDiagrams : make_inactive(queryset)

SpecDiagram == InitDiagram /\ [][NextDiagram]_vars

\* -------------------------------------------------------- SpecRoles

AccountIds == 1..MaxAccounts

StoredAccounts == {i \in AccountIds : users[i] # NoRow}

\* POST of the change form of UserAdmin for the account target, sent by the
\* logged-in account actor. 'role' is a field of the form's fieldsets for every
\* target, the actor's own account included; the form accepts a role of
\* ROLE_CHOICES only.
UserAdminChange(actor, target, role) ==
    /\ actor \in StoredAccounts /\ target \in StoredAccounts
    /\ LET allowed == has_permission("UserAdmin", LoggedIn(users[actor]), "change")
           valid == role \in ROLE_CHOICES
       IN  /\ users' = IF allowed /\ valid
                       THEN [users EXCEPT ![target].role = role,
                                          ![target].role_given = TRUE]
                       ELSE users
           /\ request' = [view |-> "user_change", actor |-> actor, target |-> target,
                          role |-> role, before |-> users[target].role,
                          decision |-> allowed, saved |-> allowed /\ valid]
    /\ UNCHANGED <<instances, siteSettings, diagrams, applications, now,
                   notified, contentVars>>

\* POST of the add form of UserAdmin: a new account with the posted role.
UserAdminAdd(actor, id, role) ==
    /\ actor \in StoredAccounts /\ id \in AccountIds \ StoredAccounts
    /\ LET allowed == has_permission("UserAdmin", LoggedIn(users[actor]), "add")
           valid == role \in ROLE_CHOICES
       IN  /\ users' = IF allowed /\ valid
                       THEN [users EXCEPT ![id] = [exists |-> TRUE, role |-> role,
                                                   role_given |-> TRUE]]
                       ELSE users
           /\ request' = [view |-> "user_add", actor |-> actor, target |-> id,
                          role |-> role, before |-> None,
                          decision |-> allowed, saved |-> allowed /\ valid]
    /\ UNCHANGED <<instances, siteSettings, diagrams, applications, now,
                   notified, contentVars>>

InitRoles ==
    /\ users = [i \in AccountIds |-> NoRow]
    /\ InitRequest /\ InitInstances /\ InitSettings /\ InitDiagrams
    /\ InitApplications /\ InitContent

NextRoles ==
    \/ \E id \in AccountIds, roleArg \in RoleInputs : CreateUser(id, roleArg)
    \/ \E actor \in AccountIds, target \in AccountIds, role \in ROLE_CHOICES \cup {"guest"} :
          UserAdminChange(actor, target, role)
    \/ \E actor \in AccountIds, id \in AccountIds, role \in ROLE_CHOICES \cup {"guest"} :
          UserAdminAdd(actor, id, role)

SpecRoles == InitRoles /\ [][NextRoles]_vars

\* ---------------------------------------------------------- SpecUsers

UpperCase == "ABCDEFGHIJKLMNOPQRSTUVWXYZ"

LowerCase == "abcdefghijklmnopqrstuvwxyz"

\* str.lower(), over the characters used here.
RECURSIVE lower(_)
lower(s) ==
    IF s = "" THEN ""
    ELSE LET c == Char(s, 1)
             at == {k \in 1..Len(UpperCase) : Char(UpperCase, k) = c}
         IN  (IF at = {} THEN c ELSE Char(LowerCase, CHOOSE k \in at : TRUE))
                \o lower(SubSeq(s, 2, Len(s)))

\* BaseUserManager.normalize_email, called by AbstractUser.clean(): the part
\* after the last '@' is lower-cased. The addresses taken here carry no outer
\* whitespace, so its strip() has nothing to remove.
normalize_email(email) ==
    LET ats == {k \in 1..Len(email) : Char(email, k) = "@"}
    IN  IF ats = {} THEN email
        ELSE LET last == CHOOSE k \in ats : \A j \in ats : j <= k
             IN  SubSeq(email, 1, last) \o lower(SubSeq(email, last + 1, Len(email)))

EmailInputs ==
    {"", "ivan@example.ru", "ivan@Example.RU", "olga@example.ru", "ivan.example.ru"}

UserPhoneInputs ==
    {"", "+7 999 123-45-67", "+79991234567", "8 (495) 123-45-67", "12345"}

\* The part of full_clean() that does not read the table, computed once for
\* each pair of inputs.
ValidatedContacts ==
    {[email |-> email, phone |-> phone,
      normalized_email |-> normalize_email(email),
      email_matches |-> email_regex(normalize_email(email)),
      validated_phone |-> User_validate_phone(phone)] :
        email \in EmailInputs, phone \in UserPhoneInputs}

Validated(email, phone) ==
    CHOOSE row \in ValidatedContacts : row.email = email /\ row.phone = phone

\* User.objects.filter(email=email).exclude(pk=pk).first() finds a row.
EmailDuplicate(email, pk) == \E j \in StoredAccounts \ {pk} : users[j].email = email

\* User._check_phone_duplicate: filter(phone=phone).exclude(pk=pk).first().
check_phone_duplicate(phone, pk) ==
    phone # "" /\ \E j \in StoredAccounts \ {pk} : users[j].phone = phone

\* A clean() that forgets _check_phone_duplicate().
User_clean_NoPhoneDuplicateCheck(email, phone, pk) ==
    LET v == Validated(email, phone)
    IN  IF v.normalized_email # ""
           /\ (~v.email_matches \/ EmailDuplicate(v.normalized_email, pk))
        THEN [errors |-> {"email"}, email |-> v.normalized_email, phone |-> phone]
        ELSE IF phone = ""
        THEN [errors |-> {}, email |-> v.normalized_email, phone |-> phone]
        ELSE IF ~v.validated_phone.accepted
        THEN [errors |-> {"phone"}, email |-> v.normalized_email, phone |-> phone]
        ELSE [errors |-> {}, email |-> v.normalized_email,
              phone |-> v.validated_phone.value]

\* User.clean for the instance with primary key pk: AbstractUser.clean()
\* normalizes the email; a non-empty email is matched and looked up
\* (_validate_email); a non-empty phone is validated, normalized and looked up.
\* The first ValidationError ends clean().
User_clean(email, phone, pk) ==
    LET v == Validated(email, phone)
    IN  IF v.normalized_email # ""
           /\ (~v.email_matches \/ EmailDuplicate(v.normalized_email, pk))
        THEN [errors |-> {"email"}, email |-> v.normalized_email, phone |-> phone]
        ELSE IF phone = ""
        THEN [errors |-> {}, email |-> v.normalized_email, phone |-> phone]
        ELSE IF ~v.validated_phone.accepted
        THEN [errors |-> {"phone"}, email |-> v.normalized_email, phone |-> phone]
        ELSE IF check_phone_duplicate(v.validated_phone.value, pk)
        THEN [errors |-> {"phone"}, email |-> v.normalized_email,
              phone |-> v.validated_phone.value]
        ELSE [errors |-> {}, email |-> v.normalized_email,
              phone |-> v.validated_phone.value]

\* User.save() of the instance with the given email and phone: full_clean()
\* (max_length of phone, then clean()), then the row is written. An instance
\* without a primary key takes the next one.
UserSave(id, email, phone) ==
    /\ users[id] = NoRow => StoredAccounts = 1..(id - 1)
    /\ LET cleaned == User_clean(email, phone, id)
           errors == (IF Len(phone) <= 20 THEN {} ELSE {"phone"}) \cup cleaned.errors
       IN  /\ users' =
                 IF errors # {} THEN users
                 ELSE IF users[id] = NoRow
                 THEN [users EXCEPT ![id] =
                          [exists |-> TRUE, role |-> RoleDefault, role_given |-> FALSE,
                           email |-> cleaned.email, phone |-> cleaned.phone]]
                 ELSE [users EXCEPT ![id].email = cleaned.email,
                                    ![id].phone = cleaned.phone]
           /\ request' = [view |-> "user_save", id |-> id, email |-> email,
                          phone |-> phone, errors |-> errors, saved |-> errors = {}]
    /\ UNCHANGED <<instances, siteSettings, diagrams, applications, now,
                   notified, contentVars>>

InitUsersSpec ==
    /\ users = [i \in AccountIds |-> NoRow]
    /\ InitRequest /\ InitInstances /\ InitSettings /\ InitDiagrams
    /\ InitApplications /\ InitContent

NextUsers ==
    \E id \in AccountIds, email \in EmailInputs, phone \in UserPhoneInputs :
        UserSave(id, email, phone)

SpecUsers == InitUsersSpec /\ [][NextUsers]_vars

\* ---------------------------------------------------------- SpecColor

HexDigits == Digits \cup {"a", "b", "c", "d", "e", "f", "A", "B", "C", "D", "E", "F"}

\* str.upper(), over the characters used here.
RECURSIVE upper(_)
upper(s) ==
    IF s = "" THEN ""
    ELSE LET c == Char(s, 1)
             at == {k \in 1..Len(LowerCase) : Char(LowerCase, k) = c}
         IN  (IF at = {} THEN c ELSE Char(UpperCase, CHOOSE k \in at : TRUE))
                \o upper(SubSeq(s, 2, Len(s)))

\* color_pattern.match(s) for ^#([A-Fa-f0-9]{6}|[A-Fa-f0-9]{3})$
color_pattern(s) ==
    LET h1 == One(s, One(s, {1}, {"#"}), HexDigits)
        h3 == One(s, One(s, h1, HexDigits), HexDigits)
        h6 == One(s, One(s, One(s, h3, HexDigits), HexDigits), HexDigits)
    IN  AtEnd(s, h3 \cup h6)

\* DiagramCategory._validate_color: whether the colour is accepted, and the
\* colour left on the instance.
validate_color(color) ==
    IF ~color_pattern(color) THEN [accepted |-> FALSE, value |-> color]
    ELSE [accepted |-> TRUE,
          value |-> upper(IF Len(color) = 4
                          THEN "#" \o Char(color, 2) \o Char(color, 2)
                                   \o Char(color, 3) \o Char(color, 3)
                                   \o Char(color, 4) \o Char(color, 4)
                          ELSE color)]

\* The colours handed to save(): with and without '#', three characters or
\* other lengths, with and without a final newline.
ColorCharacters == {"a", "F", "0", "g"}

ColorBodies ==
    {x \o y \o z : x \in ColorCharacters, y \in ColorCharacters, z \in ColorCharacters}
    \cup {"", "aabbcc", "A1b2C3", "12345", "1234567", "ff 00"}

ColorInputs ==
    {hash \o body \o tail : hash \in {"#", ""}, body \in ColorBodies, tail \in {"", "\n"}}

\* DiagramCategory.save() of a new category with the given colour:
\* full_clean() (the field is not blank and at most 7 characters, then
\* clean()), then the row is written with the colour clean() left. The colour
\* that was stored is validated once more (second).
DiagramCategorySave ==
    /\ request.view = "color_input"
    /\ LET first == validate_color(request.color)
           errors == (IF request.color # "" /\ Len(request.color) <= 7
                      THEN {} ELSE {"color"})
                        \cup (IF first.accepted THEN {} ELSE {"color"})
       IN  /\ categories' = IF errors = {} THEN Append(categories, [color |-> first.value])
                            ELSE categories
           /\ request' = [view |-> "color", color |-> request.color, errors |-> errors,
                          saved |-> errors = {}, first |-> first,
                          second |-> validate_color(first.value)]
    /\ UNCHANGED <<users, instances, siteSettings, diagrams, applications, now,
                   notified, sectionMedia, media, storage, news,
                   tables, writers>>

InitColor ==
    /\ request \in [view : {"color_input"}, color : ColorInputs]
    /\ InitUsers /\ InitInstances /\ InitSettings
    /\ InitDiagrams /\ InitApplications /\ InitContent

NextColor == DiagramCategorySave

SpecColor == InitColor /\ [][NextColor]_vars

\* -------------------------------------------------------- SpecSection

SectionMediaModels == {"SectionImage", "SectionFile"}

SectionParents == {"about_section", "service_section", "document_section"}

\* A nullable ForeignKey is a set: {} is None, {1} is the section with pk 1.
ParentInputs == {{}, {1}}

\* len(filled_sections) of SectionImage.clean and SectionFile.clean.
FilledSections(row) == Cardinality({parent \in SectionParents : row[parent] # {}})

\* SectionImage.clean / SectionFile.clean: the non-field error, if any.
SectionMedia_clean(row) == IF FilledSections(row) # 1 THEN {"__all__"} ELSE {}

\* SectionImage.objects.create(...) or SectionFile.objects.create(...), or
\* save() of a new instance: neither model overrides save(), so Model.save()
\* writes the row and clean() is not called.
SectionMediaCreate(model, about, service, document) ==
    /\ Len(sectionMedia) < MaxSectionMedia
    /\ LET row == [model |-> model, about_section |-> about,
                   service_section |-> service, document_section |-> document]
       IN  /\ sectionMedia' = Append(sectionMedia, row)
           /\ request' = [view |-> "section_create", row |-> row,
                          cleaned |-> FALSE, errors |-> {}, saved |-> TRUE]
    /\ UNCHANGED <<users, instances, siteSettings, diagrams, applications, now,
                   notified, categories, media, storage, news,
                   tables, writers>>

\* A row added in SectionImageInline or SectionFileInline on the change page of
\* a stored section: the formset sets the foreign key to that section, the
\* form's validation calls full_clean() and with it clean(), and a valid form
\* is saved.
SectionInlineAdd(model, parent) ==
    /\ Len(sectionMedia) < MaxSectionMedia
    /\ LET row == [p \in SectionParents |-> IF p = parent THEN {1} ELSE {}]
                      @@ [model |-> model]
           errors == SectionMedia_clean(row)
       IN  /\ sectionMedia' = IF errors = {} THEN Append(sectionMedia, row)
                              ELSE sectionMedia
           /\ request' = [view |-> "section_inline", row |-> row,
                          cleaned |-> TRUE, errors |-> errors, saved |-> errors = {}]
    /\ UNCHANGED <<users, instances, siteSettings, diagrams, applications, now,
                   notified, categories, media, storage, news,
                   tables, writers>>

InitSection ==
    /\ InitUsers /\ InitRequest /\ InitInstances /\ InitSettings
    /\ InitDiagrams /\ InitApplications /\ InitContent

NextSection ==
    \/ \E model \in SectionMediaModels, about \in ParentInputs,
          service \in ParentInputs, document \in ParentInputs :
          SectionMediaCreate(model, about, service, document)
    \/ \E model \in SectionMediaModels, parent \in SectionParents :
          SectionInlineAdd(model, parent)

SpecSection == InitSection /\ [][NextSection]_vars

\* ---------------------------------------------------------- SpecFiles

\* Where MEDIA_ROOT = BASE_DIR / 'media' may lie: BASE_DIR is where the project
\* is deployed.
MediaRoots == {"/app/media", "/srv/files/site/media", "/home/images/www/media"}

\* os.path.split(path)[0] of a path without doubled or final slashes.
split(path) ==
    LET slashes == {k \in 1..Len(path) : Char(path, k) = "/"}
        last == CHOOSE k \in slashes : \A j \in slashes : j <= k
    IN  IF slashes = {} THEN ""
        ELSE IF last = 1 THEN "/"
        ELSE SubSeq(path, 1, last - 1)

\* The paths of the uploads under each media root and of the directories
\* above them.
KnownPaths ==
    LET files == {root \o kind \o "/2024/01/" \o day \o "/" \o name :
                     root \in MediaRoots, kind \in {"/images", "/files"},
                     day \in {"15", "16"}, name \in {"a", "b", "bad"}}
        paths == UNION {{SubSeq(file, 1, k) : k \in 1..Len(file)} : file \in files}
    IN  {x \in paths : \E file \in files :
            x = file \/ (Len(x) < Len(file) /\ Char(file, Len(x) + 1) = "/")}
        \cup {split(root) \o "/manage.py" : root \in MediaRoots}

\* The directory of each of the paths, computed once (the comparison makes
\* the function a table).
KnownDirectories ==
    LET table == [path \in KnownPaths |-> split(path)]
    IN  IF table = table THEN table ELSE table

\* os.path.dirname
dirname(path) ==
    IF path \in DOMAIN KnownDirectories THEN KnownDirectories[path] ELSE split(path)

\* A directory and the directories above it.
RECURSIVE Ancestors(_)
Ancestors(path) == IF path \in {"/", ""} THEN {"/"} ELSE {path} \cup Ancestors(dirname(path))

\* os.listdir: the files and directories right under a directory.
listdir(fs, directory) ==
    {entry \in (fs.dirs \cup fs.files) \ {directory} : dirname(entry) = directory}

\* The file system of a deployment whose media directory is empty: the project
\* directory holds the code and the media directory.
FreshStorage(root) ==
    [root  |-> root,
     dirs  |-> Ancestors(root),
     files |-> {dirname(root) \o "/manage.py"}]

\* The while loop of delete_empty_parent_folders, entered with a directory: an
\* empty directory is removed and the loop goes on with its parent unless the
\* parent's path holds 'media' and neither 'images' nor 'files'.
RECURSIVE RemoveEmptyFolders(_, _)
RemoveEmptyFolders(directory, fs) ==
    IF directory = "" \/ directory \notin fs.dirs THEN fs
    ELSE IF listdir(fs, directory) # {} THEN fs
    ELSE LET removed == [fs EXCEPT !.dirs = @ \ {directory}]
             parent == dirname(directory)
         IN  IF /\ Contains(parent, "media")
                /\ ~(Contains(parent, "images") \/ Contains(parent, "files"))
             THEN removed
             ELSE RemoveEmptyFolders(parent, removed)

delete_empty_parent_folders(file_path, fs) ==
    IF file_path = "" THEN fs ELSE RemoveEmptyFolders(dirname(file_path), fs)

\* An Image or File is created with an uploaded binary: the storage writes it
\* under upload_to ('images/%Y/%m/%d/' or 'files/%Y/%m/%d/') of MEDIA_ROOT and
\* makes the directories that are missing.
UploadMedia(model, day, name) ==
    LET folder == storage.root \o (IF model = "Image" THEN "/images" ELSE "/files")
                     \o "/2024/01/" \o day
        path == folder \o "/" \o name
    IN  /\ Cardinality(media) < MaxMedia
        /\ path \notin storage.files
        /\ media' = media \cup {[model |-> model, path |-> path]}
        /\ storage' = [storage EXCEPT !.files = @ \cup {path},
                                      !.dirs = @ \cup Ancestors(folder)]
        /\ request' = [view |-> "upload", path |-> path, before |-> storage]
        /\ UNCHANGED <<users, instances, siteSettings, diagrams, applications, now,
                       notified, categories, sectionMedia, news,
                   tables, writers>>

\* delete_image_file / delete_file_file, run after the record is deleted: a
\* binary that exists is removed, then delete_empty_parent_folders runs.
DeleteMedia(record) ==
    /\ record \in media
    /\ media' = media \ {record}
    /\ storage' = IF record.path \in storage.files
                  THEN delete_empty_parent_folders(
                          record.path, [storage EXCEPT !.files = @ \ {record.path}])
                  ELSE storage
    /\ request' = [view |-> "delete", path |-> record.path, before |-> storage]
    /\ UNCHANGED <<users, instances, siteSettings, diagrams, applications, now,
                   notified, categories, sectionMedia, news,
                   tables, writers>>

InitFiles ==
    /\ media = {}
    /\ storage \in {FreshStorage(root) : root \in MediaRoots}
    /\ InitUsers /\ InitRequest /\ InitInstances /\ InitSettings
    /\ InitDiagrams /\ InitApplications
    /\ InitNotified /\ InitCategories /\ InitSectionMedia /\ InitNews
    /\ InitTables /\ InitWriters

NextFiles ==
    \/ \E model \in {"Image", "File"}, day \in {"15", "16"}, name \in {"a", "b"} :
          UploadMedia(model, day, name)
    \/ \E record \in media : DeleteMedia(record)

SpecFiles == InitFiles /\ [][NextFiles]_vars

\* ---------------------------------------------------------- SpecMedia

\* The binaries that are uploaded, by the name of the upload: the day of the
\* upload, and what os.path.getsize and PIL report of the binary. "bad" is not
\* an image PIL can open.
Binaries ==
    [a   |-> [day |-> "15", readable |-> TRUE,  width |-> 640, height |-> 480,
              size |-> 1000],
     b   |-> [day |-> "16", readable |-> TRUE,  width |-> 800, height |-> 600,
              size |-> 2000],
     bad |-> [day |-> "16", readable |-> FALSE, width |-> 0,   height |-> 0,
              size |-> 3000]]

Uploads == DOMAIN Binaries

\* The binary stored under a path: the upload it was written from.
basename(path) == SubSeq(path, Len(dirname(path)) + 2, Len(path))

BinaryAt(path) == Binaries[basename(path)]

MediaIds == 1..MaxMedia

\* A pre-save hook that would remove the stored binary on every update.
ReferenceChanged_Always(old_path, reference) == old_path # ""

\* 'old_instance.image and old_instance.image != instance.image' in the
\* pre_save hooks: the stored record has a binary and the instance names
\* another one.
ReferenceChanged(old_path, reference) == old_path # "" /\ old_path # reference

\* _calculate_and_update_dimensions / _calculate_and_update_size on the row
\* just written, run when the instance has a binary and a cached field that is
\* not set: the fields are written with update() when the binary exists and,
\* for an Image, PIL opens it; every exception is logged and dropped.
CachedFields(row, fs) ==
    IF row.path = "" \/ row.path \notin fs.files THEN row
    ELSE IF row.model = "File"
    THEN IF row.file_size # {} THEN row
         ELSE [row EXCEPT !.file_size = {BinaryAt(row.path).size}]
    ELSE IF row.image_width # {} /\ row.image_height # {} /\ row.file_size # {}
    THEN row
    ELSE IF ~BinaryAt(row.path).readable THEN row
    ELSE [row EXCEPT !.image_width = {BinaryAt(row.path).width},
                     !.image_height = {BinaryAt(row.path).height},
                     !.file_size = {BinaryAt(row.path).size}]

\* Image.save() / File.save() of an instance loaded from its row (or new, when
\* no row has the id), with a new upload or, for upload = "", with the binary
\* it has. In the order of Model.save(): the pre_save hook removes the binary
\* of the stored row when the reference changed and prunes the directories;
\* the storage writes the upload under upload_to; the row is written, unless
\* the database refuses (commit = FALSE: the exception reaches the caller);
\* the cached fields are computed. The database refuses updates that change
\* the binary, and only while every binary in the storage is the binary of a
\* row; "bad" is uploaded as an Image.
MediaSave(id, model, upload, commit) ==
    LET stored == {r \in media : r.id = id}
        existing == stored # {}
        old == CHOOSE r \in stored : TRUE
        instance == IF existing THEN old
                    ELSE [id |-> id, model |-> model, path |-> "", image_width |-> {},
                          image_height |-> {}, file_size |-> {}]
        reference == IF upload = "" THEN instance.path ELSE upload
        removed == IF /\ existing
                      /\ ReferenceChanged(old.path, reference)
                      /\ old.path \in storage.files
                   THEN {old.path} ELSE {}
        hook == IF removed = {} THEN storage
                ELSE delete_empty_parent_folders(
                        old.path, [storage EXCEPT !.files = @ \ removed])
        folder == storage.root \o (IF instance.model = "Image" THEN "/images" ELSE "/files")
                     \o "/2024/01/" \o Binaries[upload].day
        path == IF upload = "" THEN instance.path ELSE folder \o "/" \o upload
        written == IF upload = "" THEN hook
                   ELSE [hook EXCEPT !.files = @ \cup {path},
                                     !.dirs = @ \cup Ancestors(folder)]
        row == [instance EXCEPT !.path = path]
    IN  /\ upload = "bad" => instance.model = "Image"
        /\ IF existing THEN model = old.model
           ELSE /\ upload # ""
                /\ \A r \in media : r.id < id
                /\ id = Cardinality(media) + 1
        /\ upload # "" => path \notin hook.files
        /\ ~commit => /\ existing /\ upload # ""
                      /\ \A file \in storage.files :
                            file = dirname(storage.root) \o "/manage.py"
                            \/ \E r \in media : r.path = file
        /\ storage' = written
        /\ media' = IF commit THEN (media \ stored) \cup {CachedFields(row, written)}
                    ELSE media
        /\ request' = [view |-> "media_save", id |-> id, upload |-> upload,
                       removed |-> removed, saved |-> commit]
        /\ UNCHANGED <<users, instances, siteSettings, diagrams, applications, now,
                       notified, categories, sectionMedia, news, tables, writers>>

InitMediaSpec ==
    /\ InitFiles
    /\ storage.root \in {"/app/media", "/srv/files/site/media"}

NextMedia ==
    \E id \in MediaIds, model \in {"Image", "File"}, upload \in Uploads \cup {""},
       commit \in BOOLEAN :
       MediaSave(id, model, upload, commit)

SpecMedia == InitMediaSpec /\ [][NextMedia]_vars

\* ----------------------------------------------------------- SpecNews

NewsIds == 1..MaxNews

StoredNews == {i \in NewsIds : news[i] # NoRow}

\* publish_date of a news item: the first and the last time that now takes,
\* and a time after them.
PublishDates == {0, MaxTime, MaxTime + 1}

SlugInputs == {"a"}

\* django.utils.text.slugify(value, allow_unicode=False) after lower(): the
\* characters outside [a-z0-9_], spaces and hyphens are dropped, and each run
\* of spaces and hyphens becomes one hyphen.
RECURSIVE SlugCharacters(_)
SlugCharacters(s) ==
    IF s = "" THEN ""
    ELSE LET c == Char(s, 1)
             rest == SlugCharacters(SubSeq(s, 2, Len(s)))
         IN  IF c \in (Letters \cup Digits \cup {"_"}) THEN c \o rest
             ELSE IF c \notin {" ", "-"} THEN rest
             ELSE IF rest # "" /\ Char(rest, 1) = "-" THEN rest
             ELSE "-" \o rest

\* str.strip('-_')
RECURSIVE strip(_)
strip(s) ==
    IF s = "" THEN ""
    ELSE IF Char(s, 1) \in {"-", "_"} THEN strip(SubSeq(s, 2, Len(s)))
    ELSE IF Char(s, Len(s)) \in {"-", "_"} THEN strip(SubSeq(s, 1, Len(s) - 1))
    ELSE s

slugify(value) == strip(SlugCharacters(lower(value)))

\* What a caller passes as title and slug of a news item: a slug, or no slug
\* and a title to make it from.
SlugSources ==
    {[title |-> "A b", slug |-> "a"],
     [title |-> "A b", slug |-> ""],
     [title |-> "a - b!", slug |-> ""],
     [title |-> "?!", slug |-> ""],
     [title |-> "A b", slug |-> "a-1"]}

\* slugify of the titles, computed once.
Slugified ==
    LET table == [title \in {source.title : source \in SlugSources} |-> slugify(title)]
    IN  IF table = table THEN table ELSE table

\* A loop that would not leave the instance itself out of the lookup.
RECURSIVE UniqueSlug_CountingSelf(_, _, _)
UniqueSlug_CountingSelf(original_slug, counter, pk) ==
    LET slug == IF counter = 0 THEN original_slug
                ELSE original_slug \o "-" \o ToString(counter)
    IN  IF \E j \in StoredNews : news[j].slug = slug
        THEN UniqueSlug_CountingSelf(original_slug, counter + 1, pk)
        ELSE slug

\* News.save: the while loop that appends -1, -2, ... to the slug until no
\* other row has it.
RECURSIVE UniqueSlug(_, _, _)
UniqueSlug(original_slug, counter, pk) ==
    LET slug == IF counter = 0 THEN original_slug
                ELSE original_slug \o "-" \o ToString(counter)
    IN  IF \E j \in StoredNews \ {pk} : news[j].slug = slug
        THEN UniqueSlug(original_slug, counter + 1, pk)
        ELSE slug

\* News.save(): an instance without a slug takes slugify(title); the slug is
\* made unique; the row is written. A new instance takes the next primary key.
NewsSave(id, title, slug, is_active, publish_date) ==
    /\ news[id] = NoRow => StoredNews = 1..(id - 1)
    /\ LET original_slug == IF slug = "" THEN Slugified[title] ELSE slug
       IN  /\ news' = [news EXCEPT ![id] =
                          [exists |-> TRUE, slug |-> UniqueSlug(original_slug, 0, id),
                           is_active |-> is_active, publish_date |-> publish_date]]
           /\ request' = [view |-> "news_save", id |-> id, slug |-> original_slug]
    /\ UNCHANGED <<users, instances, siteSettings, diagrams, applications, now,
                   notified, categories, sectionMedia, media, storage,
                   tables, writers>>

\* A filter that forgets the publish date.
Published_ActiveOnly(row, t) == row.is_active

\* filter(is_active=True, publish_date__lte=timezone.now()) of both views.
Published(row, t) == row.is_active /\ row.publish_date <= t

\* news_list: the rows the filter keeps, ordered by -publish_date (rows of the
\* same date in any order).
news_list ==
    LET kept == {i \in StoredNews : Published(news[i], now)}
    IN  \E items \in [1..Cardinality(kept) -> kept] :
           /\ \A k, l \in DOMAIN items :
                 k < l => /\ items[k] # items[l]
                          /\ news[items[k]].publish_date >= news[items[l]].publish_date
           /\ request' = [view |-> "news_list", at |-> now, news_list |-> items]
           /\ UNCHANGED <<users, instances, siteSettings, diagrams, applications, now,
                          notified, contentVars>>

\* news_detail: get_object_or_404 on the slug and the same filter.
news_detail(slug) ==
    LET found == {i \in StoredNews : news[i].slug = slug /\ Published(news[i], now)}
    IN  /\ request' = [view |-> "news_detail", at |-> now, slug |-> slug,
                       status |-> IF found = {} THEN 404 ELSE 200,
                       news |-> found]
        /\ UNCHANGED <<users, instances, siteSettings, diagrams, applications, now,
                       notified, contentVars>>

\* HeroBlock.get_news_for_carousel of a block with these show_news_carousel
\* and news_count: nothing when the carousel is off; otherwise the active
\* rows by '-publish_date', cut at news_count.
get_news_for_carousel(show_news_carousel, news_count) ==
    LET news_qs == IF show_news_carousel
                   THEN {i \in StoredNews : news[i].is_active}
                   ELSE {}
    IN  \E items \in [1..Cardinality(news_qs) -> news_qs] :
           /\ \A k, l \in DOMAIN items :
                 k < l => /\ items[k] # items[l]
                          /\ news[items[k]].publish_date >= news[items[l]].publish_date
           /\ request' = [view |-> "carousel", at |-> now,
                          show_news_carousel |-> show_news_carousel,
                          news_count |-> news_count,
                          items |-> SubSeq(items, 1, IF Len(items) < news_count
                                                     THEN Len(items) ELSE news_count)]
           /\ UNCHANGED <<users, instances, siteSettings, diagrams, applications, now,
                          notified, contentVars>>

InitNewsSpec ==
    /\ news = [i \in NewsIds |-> NoRow]
    /\ InitUsers /\ InitRequest /\ InitInstances /\ InitSettings
    /\ InitDiagrams /\ InitApplications
    /\ InitNotified /\ InitCategories /\ InitSectionMedia /\ InitMedia /\ InitStorage
    /\ InitTables /\ InitWriters

NextNews ==
    \/ \E id \in NewsIds, slug \in SlugInputs, is_active \in BOOLEAN,
          publish_date \in PublishDates :
          NewsSave(id, "A b", slug, is_active, publish_date)
    \/ news_list
    \/ \E slug \in {"a", "a-1", "c"} : news_detail(slug)
    \/ \E show_news_carousel \in BOOLEAN, news_count \in 1..MaxNews :
          get_news_for_carousel(show_news_carousel, news_count)
    \/ Tick

SpecNews == InitNewsSpec /\ [][NextNews]_vars

\* ----------------------------------------------------------- SpecSlug

\* News.save() calls one after another, of items dated now.
NextSlug ==
    \E id \in NewsIds, source \in SlugSources, is_active \in BOOLEAN :
        NewsSave(id, source.title, source.slug, is_active, 0)

SpecSlug == InitNewsSpec /\ [][NextSlug]_vars

\* ----------------------------------------------------- SpecValidation

\* The models that define clean().
ValidatingModels ==
    {"User", "Application", "Phone", "Email", "Address", "SocialMedia", "Diagram",
     "DiagramCategory", "SectionImage", "SectionFile", "News", "HeroBlock",
     "AnalyticsBlock"}

\* The models whose save() calls self.full_clean() before super().save().
SaveCallsFullClean ==
    {"User", "Application", "Phone", "Email", "Address", "SocialMedia", "DiagramCategory"}

\* The models whose admin has bulk actions that write: queryset.update(...) for
\* all of them, and for Diagram also a loop of diagram.save().
BulkActionModels ==
    {"User", "Application", "Phone", "Email", "Address", "SocialMedia", "Diagram"}

\* Whether clean() runs before the row is written on a write path: a direct
\* save() of the model, a form of the admin site (form validation calls
\* full_clean()), a bulk action of the admin.
ValidationRuns(model, path) ==
    CASE path = "save" -> model \in SaveCallsFullClean
      [] path = "admin_form" -> TRUE
      [] OTHER -> FALSE

\* One write of a row of the model on a write path; valid says whether the
\* row satisfies the rules of clean(). HeroBlock.clean raises nothing, and a
\* bulk action changes is_active or status of rows that are stored already.
PersistWrite(model, path, valid) ==
    /\ Len(tables) < MaxWrites
    /\ path = "bulk_action" => model \in BulkActionModels /\ valid
    /\ model = "HeroBlock" => valid
    /\ LET validated == ValidationRuns(model, path)
           written == ~validated \/ valid
       IN  /\ tables' = IF written
                        THEN Append(tables, [model |-> model, path |-> path,
                                             valid |-> valid, validated |-> validated])
                        ELSE tables
           /\ request' = [view |-> "write", model |-> model, path |-> path,
                          valid |-> valid, validated |-> validated,
                          written |-> written]
    /\ UNCHANGED <<users, instances, siteSettings, diagrams, applications, now,
                   notified, categories, sectionMedia, media, storage, news, writers>>

InitValidation ==
    /\ InitUsers /\ InitRequest /\ InitInstances /\ InitSettings
    /\ InitDiagrams /\ InitApplications /\ InitContent

NextValidation ==
    \E model \in ValidatingModels, path \in {"save", "admin_form", "bulk_action"},
       valid \in BOOLEAN : PersistWrite(model, path, valid)

SpecValidation == InitValidation /\ [][NextValidation]_vars

\* ----------------------------------------------------------- SpecRace

WriterIds == 1..MaxWriters

\* A save that would count the active diagrams again under a lock.
Diagram_save_Serialized(d, rows) ==
    IF Cardinality({i \in DiagramIds : rows[i] # NoRow /\ rows[i].is_active} \ {d})
          >= MAX_ACTIVE_DIAGRAMS
    THEN rows
    ELSE [rows EXCEPT ![d].is_active = TRUE]

\* Model.save() of the diagram d with is_active = True, as run by
\* super().save_model() inside transaction.atomic() and by make_active: the
\* row is updated; nothing is read or locked first.
Diagram_save(d, rows) == [rows EXCEPT ![d].is_active = TRUE]

\* An admin request that activates the inactive diagram d starts: the change
\* form posted with is_active checked, or the action make_active run on {d}.
\* The requests in flight are about different diagrams.
OpenRequest(w, path, d) ==
    /\ writers[w].pc = "idle"
    /\ d \in StoredDiagrams \ ActiveDiagrams
    /\ \A v \in WriterIds : writers[v].pc = "idle" \/ writers[v].diagram # d
    /\ writers' = [writers EXCEPT ![w] = [pc |-> "started", path |-> path,
                                          diagram |-> d, count |-> 0]]
    /\ UNCHANGED <<users, request, instances, siteSettings, diagrams, applications,
                   now, notified, categories, sectionMedia, media, storage, news,
                   tables>>

\* The request counts the active diagrams: _validate_active_limit during form
\* validation (the instance itself excluded), or active_count at the top of
\* make_active. At the limit the request ends with an error.
ReadCount(w) ==
    /\ writers[w].pc = "started"
    /\ LET count == IF writers[w].path = "change_form"
                    THEN Cardinality(ActiveDiagrams \ {writers[w].diagram})
                    ELSE Cardinality(ActiveDiagrams)
       IN  writers' = [writers EXCEPT
                          ![w].count = count,
                          ![w].pc = IF count >= MAX_ACTIVE_DIAGRAMS
                                    THEN "rejected" ELSE "validated"]
    /\ UNCHANGED <<users, request, instances, siteSettings, diagrams, applications,
                   now, notified, categories, sectionMedia, media, storage, news,
                   tables>>

\* The request writes its row: save_model, or the loop of make_active.
WriteRow(w) ==
    /\ writers[w].pc = "validated"
    /\ diagrams' = Diagram_save(writers[w].diagram, diagrams)
    /\ writers' = [writers EXCEPT ![w].pc = "committed"]
    /\ UNCHANGED <<users, request, instances, siteSettings, applications,
                   now, notified, categories, sectionMedia, media, storage, news,
                   tables>>

\* The response is sent.
CloseRequest(w) ==
    /\ writers[w].pc \in {"committed", "rejected"}
    /\ writers' = [writers EXCEPT ![w] = [pc |-> "idle", path |-> "none",
                                          diagram |-> 0, count |-> 0]]
    /\ UNCHANGED <<users, request, instances, siteSettings, diagrams, applications,
                   now, notified, categories, sectionMedia, media, storage, news,
                   tables>>

\* Diagrams stored by earlier requests that ran one after another: at most
\* MAX_ACTIVE_DIAGRAMS of them active.
InitRace ==
    /\ InitUsers /\ InitRequest /\ InitInstances /\ InitSettings
    /\ InitApplications /\ InitContent
    /\ \E active \in SUBSET DiagramIds :
          /\ Cardinality(active) <= MAX_ACTIVE_DIAGRAMS
          /\ diagrams = [i \in DiagramIds |->
                            [exists |-> TRUE, is_active |-> i \in active]]

NextRace ==
    \/ \E w \in WriterIds, path \in {"change_form", "make_active"}, d \in DiagramIds :
          OpenRequest(w, path, d)
    \/ \E w \in WriterIds : ReadCount(w)
    \/ \E w \in WriterIds : WriteRow(w)
    \/ \E w \in WriterIds : CloseRequest(w)

SpecRace == InitRace /\ [][NextRace]_vars

\* ---------------------------------------- properties stated over SpecSingleton

\* C7: once an instance of a singleton type exists, add is refused to every
\* role: no step adds an instance to a type that has one, and no type ever has
\* more than one instance. (AdminAdd inserts only when has_add_permission
\* grants the request.)
C7_SingletonAddDenied ==
    /\ [][\A t \in SingletonTypes :
             instances[t] # {} => instances'[t] \subseteq instances[t]]_vars
    /\ [](\A t \in SingletonTypes : Cardinality(instances[t]) <= 1)

\* C8: delete is refused to every role on every singleton type: no step
\* removes a stored singleton instance, so a type that has its instance keeps
\* it. (AdminDelete removes only when has_delete_permission grants the request.)
C8_SingletonDeleteDenied ==
    [][\A t \in SingletonTypes : instances[t] \subseteq instances'[t]]_vars

\* ------------------------------------------- properties stated over SpecAccess

\* The entity groups of the policy table, by the admin class of each entity.
SingletonPageAdmins == {"AboutPageAdmin", "ServicesPageAdmin", "DocumentsPageAdmin"}

BlockAdmins ==
    {"HeroBlockAdmin", "AboutBlockAdmin", "AdvantageBlockAdmin",
     "AnalyticsBlockAdmin", "PartnersBlockAdmin", "ContactsBlockAdmin"}

NonSingletonContentAdmins ==
    {"AboutSectionAdmin", "ServiceSectionAdmin", "DocumentSectionAdmin", "NewsAdmin",
     "DiagramAdmin", "PhoneAdmin", "EmailAdmin", "AddressAdmin", "SocialMediaAdmin",
     "ImageAdmin", "FileAdmin"}

ContentAdmins == NonSingletonContentAdmins \cup SingletonPageAdmins \cup BlockAdmins

IsCrudCheck == request.view = "permission" /\ request.op \in CrudOps

\* The rows of the table that C3 states for the two manager roles.
ManagerRows ==
    /\ request.user.role = "crm_manager" =>
          /\ request.admin \in ContentAdmins => ~request.decision
          /\ request.admin = "ApplicationAdmin" => request.decision
    /\ request.user.role = "content_manager" =>
          /\ request.admin = "ApplicationAdmin" => ~request.decision
          /\ request.admin \in NonSingletonContentAdmins => request.decision
    /\ request.user.role \in {"content_manager", "crm_manager"} =>
          (request.admin = "UserAdmin" => ~request.decision)

C4_NoRoleDenied ==
    (/\ request.view \in {"permission", "inline"}
     /\ (~request.user.is_authenticated \/ request.user.role \notin ROLE_CHOICES))
        => ~request.decision

C4_Witness ==
    /\ request.view = "permission"
    /\ ~request.user.is_authenticated
    /\ request.admin = "SiteSettingsAdmin"
    /\ request.op = "module"
    /\ ~request.decision

\* C5: an account that was given no role explicitly resolves to no role and
\* is refused by every permission check.
C5_NoImplicitRole ==
    (/\ request.view \in {"permission", "inline"}
     /\ request.user.is_authenticated
     /\ ~request.user.role_given)
        => get_user_role(request.user) = None /\ ~request.decision

\* C6: on LogEntry, add and change are refused to everybody; view and delete
\* are granted exactly to role admin.
C6_HistoryReadOnly ==
    (IsCrudCheck /\ request.admin = "CustomLogEntryAdmin") =>
        /\ request.op \in {"add", "change"} => ~request.decision
        /\ request.op \in {"view", "delete"} =>
              (request.decision <=>
                  (request.user.is_authenticated /\ request.user.role = "admin"))

C6_Witness ==
    /\ IsCrudCheck
    /\ request.admin = "CustomLogEntryAdmin"
    /\ request.user.role = "admin"
    /\ request.op = "change"
    /\ ~request.decision

\* C9: an inline never grants view, add, change or delete when the admin of
\* its parent entity refuses the same operation to the same principal.
C9_InlineNeverExceedsParent ==
    (request.view = "inline" /\ request.op \in CrudOps /\ ~request.parent_decision)
        => ~request.decision

C9_Witness ==
    /\ request.view = "inline"
    /\ request.inline = "SectionImageInline"
    /\ request.user.role = "crm_manager"
    /\ request.op = "view"
    /\ ~request.parent_decision
    /\ ~request.decision

\* -------------------------------------- properties stated over SpecApplication

\* C2: after every Application save and every bulk status action, whatever
\* processed_at the caller supplied, a stored row has a processed_at exactly
\* when its status is 'processed'; a save with status 'processed' and
\* processed_at None stamps the time of the save, and a save with status 'new'
\* leaves processed_at None.
C2_ProcessedAtIffProcessed ==
    /\ \A i \in StoredApplications :
          applications[i].processed_at # {} <=> applications[i].status = "processed"
    /\ (request.view = "save" /\ request.saved) =>
          /\ (request.status = "processed" /\ request.processed_at = {})
                => applications[request.id].processed_at = {request.at}
          /\ request.status = "new" => applications[request.id].processed_at = {}

C2_Witness ==
    /\ request.view = "save"
    /\ request.saved
    /\ request.status = "new"
    /\ request.processed_at # {}
    /\ request.was_processed
    /\ applications[request.id].processed_at = {}


\* C12: saving a new Application whose phone and email are both empty raises
\* a validation error that holds the non-field error; no row is written for it
\* and no notification is attempted.
C12_NoContactRejected ==
    (request.view = "save" /\ request.phone = "" /\ request.email = "") =>
        /\ request.raised
        /\ "__all__" \in request.errors
        /\ ~request.saved
        /\ ~request.notification
        /\ request.is_new =>
              /\ applications[request.id] = NoRow
              /\ notified[request.id] = 0

C12_Witness ==
    /\ request.view = "save"
    /\ request.is_new
    /\ request.phone = "" /\ request.email = ""
    /\ request.status = "new"
    /\ request.errors = {"__all__"}
    /\ applications[request.id] = NoRow

\* C13: the save that creates a valid Application attempts the notification,
\* and only with the row written; a save of an application that already has a
\* row attempts none, so every stored application has had exactly one attempt;
\* whatever the outcome of the attempt (settings missing, no recipients, a
\* template or SMTP error, an exception) a warning or an error is logged,
\* save() does not raise and the row stays.
C13_NotifyOnceAndSwallow ==
    /\ \A i \in ApplicationIds :
          notified[i] = (IF applications[i] # NoRow THEN 1 ELSE 0)
    /\ request.view = "save" =>
          /\ (request.is_new /\ request.errors = {}) => request.notification
          /\ ~request.is_new => ~request.notification
          /\ request.notification =>
                /\ request.saved /\ ~request.raised
                /\ applications[request.id] # NoRow
                /\ applications[request.id].status = request.status
                /\ request.outcome # "sent" =>
                      request.logged \cap {"warning", "error"} # {}

C13_Witness ==
    /\ request.view = "save"
    /\ request.is_new
    /\ request.notification
    /\ request.outcome = "smtp_error"
    /\ request.logged = {"error"}
    /\ ~request.raised
    /\ applications[request.id] # NoRow
    /\ notified[request.id] = 1

\* C14: a write of status 'processed' to an application (a bulk action over
\* it, or a save of the instance with the processed_at it has) stamps the
\* current time when the application has no processed_at, and leaves the
\* processed_at of an application that is already processed as it is.
C14_ProcessedAtKept ==
    [][\A i \in StoredApplications :
          (/\ applications'[i].status = "processed"
           /\ \/ request'.view = "mark" /\ i \in request'.queryset
              \/ /\ request'.view = "save" /\ request'.id = i /\ request'.saved
                 /\ request'.processed_at = applications[i].processed_at)
          => IF applications[i].processed_at = {}
             THEN applications'[i].processed_at = {request'.at}
             ELSE applications'[i].processed_at = applications[i].processed_at]_vars

\* ----------------------------------------- properties stated over SpecSettings

RestrictedFields == NotificationFields \cup IntegrationFields

\* C10: on SiteSettings a content_manager is shown and may change the branding
\* fields only: no step of a content_manager's request alters
\* notification_emails, default_email_from, recaptcha_site_key,
\* recaptcha_secret_key or yandex_metrica_id; an admin's form holds every
\* field; a crm_manager is refused every operation and changes nothing.
C10_SettingsFieldRestriction ==
    /\ [][(request'.view = "settings" /\ request'.user.role = "content_manager")
             => \A f \in RestrictedFields : siteSettings'[f] = siteSettings[f]]_vars
    /\ [][(request'.view = "settings" /\ request'.user.role = "crm_manager")
             => siteSettings' = siteSettings /\ instances' = instances]_vars
    /\ [](request.view = "settings" =>
            /\ request.user.role = "content_manager" =>
                  /\ request.op \in {"view", "change"} =>
                        request.decision /\ request.shown = BrandingFields
                  /\ "other" \notin request.changed
                  /\ FormFields(request.user) = BrandingFields
            /\ request.user.role = "admin" =>
                  /\ request.op \in {"view", "change"} => request.decision
                  /\ FormFields(request.user) = SettingsFields
            /\ request.user.role = "crm_manager" => ~request.decision)

C10_Witness ==
    /\ request.view = "settings"
    /\ request.op = "change"
    /\ request.user.role = "content_manager"
    /\ request.changed = {"branding"}
    /\ siteSettings["recaptcha_secret_key"] = "b"


\* ------------------------------------------ properties stated over SpecDiagram

\* C1: whatever the sequence of activation attempts (the add form, the change
\* form, the bulk make_active action), at most MAX_ACTIVE_DIAGRAMS diagrams are
\* active; when a request asks to activate more diagrams than there are free
\* slots, it is refused with a field error on is_active and the diagrams it
\* asked for stay as they were.
C1_ActiveLimitRejected ==
    /\ Cardinality(ActiveDiagrams) <= MAX_ACTIVE_DIAGRAMS
    /\ (/\ request.view = "diagram"
        /\ Cardinality(request.requested)
              > MAX_ACTIVE_DIAGRAMS - request.active_before)
          => /\ "is_active" \in request.errors
             /\ request.requested \cap ActiveDiagrams = {}


\* -------------------------------------------- properties stated over SpecRoles

\* C11: no principal changes the role stored on its own account: the role of
\* a stored account changes only in a request of another account whose role is
\* admin; and every stored account has exactly one role of ROLE_CHOICES.
C11_RoleNotSelfAssigned ==
    /\ [][\A i \in AccountIds :
             (users[i] # NoRow /\ users'[i].role # users[i].role)
                => /\ request'.view = "user_change"
                   /\ request'.target = i
                   /\ request'.actor # i
                   /\ users[request'.actor].role = "admin"]_vars
    /\ [](\A i \in StoredAccounts : users[i].role \in ROLE_CHOICES)


\* -------------------------------------------- properties stated over SpecPhone

\* C16: phone normalization is idempotent for the validators of User,
\* Application and contacts.Phone: when an input is accepted, the value it
\* leaves is accepted again and left as it is.
C16_PhoneNormalizationIdempotent ==
    (request.view = "phone" /\ request.first.accepted) =>
        /\ request.second.accepted
        /\ request.second.value = request.first.value

C16_Witness ==
    /\ request.view = "phone"
    /\ request.model = "Application"
    /\ request.first.accepted
    /\ request.first.value # request.input
    /\ request.second = request.first

\* ------------------------------------------- properties stated over SpecUsers

\* C15: in every state no two stored Users have the same non-empty email or
\* the same non-empty phone, and every stored non-empty phone consists of
\* digits after an optional leading '+'; and every save either is rejected
\* with errors on fields only and changes no stored row, or its normalized
\* email and phone, when not empty, are stored for no other User.
C15_UniqueContacts ==
    /\ [](/\ \A i, j \in StoredAccounts :
                i # j => /\ users[i].email = "" \/ users[i].email # users[j].email
                         /\ users[i].phone = "" \/ users[i].phone # users[j].phone
          /\ \A i \in StoredAccounts :
                \A k \in 1..Len(users[i].phone) :
                   \/ Char(users[i].phone, k) \in Digits
                   \/ k = 1 /\ Char(users[i].phone, k) = "+")
    /\ [][request'.view = "user_save" =>
             \/ /\ users' = users
                /\ ~request'.saved
                /\ request'.errors # {}
                /\ request'.errors \subseteq {"email", "phone"}
             \/ ~\E j \in StoredAccounts \ {request'.id} :
                    \/ /\ request'.email # ""
                       /\ users[j].email = normalize_email(request'.email)
                    \/ /\ request'.phone # ""
                       /\ users[j].phone = clean_phone(request'.phone)]_vars

C15_Witness ==
    /\ request.view = "user_save"
    /\ request.id = 2
    /\ request.phone = "+7 999 123-45-67"
    /\ request.errors = {"phone"}
    /\ users[1] # NoRow /\ users[1].phone = "+79991234567"
    /\ users[2] # NoRow /\ users[2].phone = "84951234567"
    /\ users[2].email = "ivan@example.ru" /\ users[1].email = "olga@example.ru"

\* ------------------------------------------- properties stated over SpecColor

\* C17: a colour that save() accepts is stored as '#' and six characters of
\* 0-9A-F; an accepted '#RGB' is stored with each digit doubled; validating
\* the stored colour again accepts it and leaves it as it is; a colour that is
\* not accepted gives an error on 'color' and no row.
C17_ColorNormalized ==
    /\ \A k \in 1..Len(categories) :
          LET c == categories[k].color
          IN  /\ Len(c) = 7
              /\ Char(c, 1) = "#"
              /\ \A p \in 2..7 : Char(c, p) \in Digits \cup {"A", "B", "C", "D", "E", "F"}
    /\ request.view = "color" =>
          /\ request.saved =>
                /\ categories = <<[color |-> request.first.value]>>
                /\ request.second = request.first
                /\ Len(request.color) = 4 =>
                      \A p \in 1..3 :
                         SubSeq(request.first.value, 2 * p, 2 * p + 1)
                            = upper(Char(request.color, p + 1) \o Char(request.color, p + 1))
          /\ ~request.saved => request.errors = {"color"} /\ categories = <<>>

\* ----------------------------------------- properties stated over SpecSection

\* C18: every stored SectionImage and SectionFile has exactly one of
\* about_section, service_section and document_section set; a creation is
\* rejected when none, two or three of them are set, and succeeds when exactly
\* one is.
C18_ExactlyOneParent ==
    /\ \A k \in 1..Len(sectionMedia) : FilledSections(sectionMedia[k]) = 1
    /\ request.view \in {"section_create", "section_inline"} =>
          (request.saved <=> FilledSections(request.row) = 1)

\* ------------------------------------------- properties stated over SpecFiles

\* C19: the storage root exists in every state, wherever it lies; and after
\* the deletion of a record whose binary existed, the binary is gone and no
\* other file is, only directories above the binary and below the storage root
\* have been removed, and none of those that remain is empty.
C19_RootNeverRemoved ==
    /\ storage.root \in storage.dirs
    /\ (request.view = "delete" /\ request.path \in request.before.files) =>
          LET above == Ancestors(dirname(request.path)) \ Ancestors(storage.root)
          IN  /\ storage.files = request.before.files \ {request.path}
              /\ request.before.dirs \ storage.dirs \subseteq above
              /\ \A d \in above \cap storage.dirs : listdir(storage, d) # {}

\* -------------------------------------------- properties stated over SpecNews

\* C20: the news list holds exactly the stored News rows that are active and
\* whose publish_date is not after the time of the request, each once; the
\* news detail answers 200 with the row when a row with the slug is active and
\* its publish_date is not after the time of the request, and 404 otherwise,
\* in particular for a slug whose row is inactive or dated in the future.
C20_OnlyPublishedNews ==
    /\ request.view = "news_list" =>
          /\ {request.news_list[k] : k \in DOMAIN request.news_list}
                = {i \in StoredNews : /\ news[i].is_active
                                      /\ news[i].publish_date <= request.at}
          /\ \A k, l \in DOMAIN request.news_list :
                k # l => request.news_list[k] # request.news_list[l]
    /\ request.view = "news_detail" =>
          LET rows == {i \in StoredNews : news[i].slug = request.slug}
          IN  /\ Cardinality(rows) <= 1
              /\ request.status \in {200, 404}
              /\ request.status = 200 <=>
                    \E i \in rows : /\ news[i].is_active
                                    /\ news[i].publish_date <= request.at
              /\ request.status = 200 => request.news = rows

C20_Witness ==
    /\ request.view = "news_detail"
    /\ request.status = 404
    /\ \E i \in StoredNews :
          /\ news[i].slug = request.slug
          /\ news[i].is_active
          /\ news[i].publish_date > request.at

\* -------------------------------------- properties stated over SpecValidation

\* C21: for every model that defines clean(), on every write path (a direct
\* save, an admin form, an admin bulk action) validation runs before the row
\* is written, and every row written has passed it.
C21_ValidatedBeforePersist ==
    /\ \A k \in 1..Len(tables) : tables[k].validated /\ tables[k].valid
    /\ request.view = "write" =>
          /\ request.validated
          /\ request.written => request.valid

\* ------------------------------- properties stated over SpecUsers (error maps)

\* The fields of a User instance that break a rule of User.clean, each rule
\* taken by itself against the stored rows.
ViolatedFields(email, phone, pk) ==
    LET v == Validated(email, phone)
    IN  (IF v.normalized_email # ""
            /\ (~v.email_matches \/ EmailDuplicate(v.normalized_email, pk))
         THEN {"email"} ELSE {})
        \cup
        (IF phone # ""
            /\ (~v.validated_phone.accepted
                \/ check_phone_duplicate(v.validated_phone.value, pk))
         THEN {"phone"} ELSE {})

\* C22: validation accumulates: when a save of a User is rejected, the error
\* map it reports has an entry for every field that violates a rule, the
\* email and the phone both when both are wrong.
C22_ErrorsAccumulated ==
    request.view = "user_save" /\ ~request.saved =>
        ViolatedFields(request.email, request.phone, request.id) \subseteq request.errors

\* -------------------------------------------- properties stated over SpecRace

\* C23: nothing serializes the count check with the write: a request whose
\* check read a count below the limit writes its row whatever the other
\* requests did in between, so that with one slot free two requests that
\* activate different diagrams can both pass the check and both commit
\* (C23_Witness), leaving more than MAX_ACTIVE_DIAGRAMS diagrams active.
C23_CheckNotSerialized ==
    [][\A w \in WriterIds :
          writers[w].pc = "validated" /\ writers'[w].pc = "committed" =>
             /\ writers[w].count < MAX_ACTIVE_DIAGRAMS
             /\ diagrams'[writers[w].diagram].is_active]_vars

C23_Witness ==
    /\ \A w \in {1, 2} : /\ writers[w].pc = "committed"
                         /\ writers[w].count = MAX_ACTIVE_DIAGRAMS - 1
    /\ writers[1].diagram # writers[2].diagram
    /\ Cardinality(ActiveDiagrams) > MAX_ACTIVE_DIAGRAMS

\* ------------------------------------------- properties stated over SpecMedia

\* C24: a save that updates a stored Image or File and changes its binary
\* reference removes the binary the row had and no other (the upload may be
\* written where that binary was), and leaves no directory above that binary
\* and below the storage root empty; a save that leaves the reference as it
\* is, or creates the record, removes no binary.
C24_OldBinaryDeletedOnChange ==
    [][request'.view = "media_save" =>
          LET stored == {r \in media : r.id = request'.id}
              changed == {r.path : r \in {r \in stored : request'.upload # ""}}
                            \cap storage.files
          IN  /\ request'.removed = changed
              /\ storage.files \ storage'.files \subseteq changed
              /\ \A old \in changed :
                    /\ old \in storage'.files => basename(old) = request'.upload
                    /\ \A d \in Ancestors(dirname(old)) \ Ancestors(storage.root) :
                          d \in storage'.dirs => listdir(storage', d) # {}]_vars

C24_Witness ==
    /\ request.view = "media_save"
    /\ request.upload = "b"
    /\ request.saved
    /\ \E old \in request.removed :
          /\ old \notin storage.files
          /\ dirname(old) \notin storage.dirs
    /\ \E r \in media : r.id = request.id /\ r.path \in storage.files

\* C25: after a save of an Image that succeeded, when the binary the row
\* references is in the storage, the cached fields image_width, image_height
\* and file_size of the stored row are all null if the binary is corrupt, and
\* all set if it is readable.
C25_CorruptLeavesNull ==
    request.view = "media_save" /\ request.saved =>
        \A r \in media :
            r.id = request.id /\ r.model = "Image" /\ r.path \in storage.files =>
                IF BinaryAt(r.path).readable
                THEN r.image_width # {} /\ r.image_height # {} /\ r.file_size # {}
                ELSE r.image_width = {} /\ r.image_height = {} /\ r.file_size = {}

\* C26: after a save of an Image or File that succeeded, the cached fields of
\* the stored row are those of the binary the row references now: the width,
\* height and size of a readable image, the size of a file, and none of them
\* the value of a binary the row referenced before.
C26_CacheDescribesBinary ==
    request.view = "media_save" /\ request.saved =>
        \A r \in media :
            r.id = request.id /\ r.path \in storage.files =>
                LET binary == BinaryAt(r.path)
                IN  /\ r.file_size \subseteq {binary.size}
                    /\ r.image_width \subseteq {binary.width}
                    /\ r.image_height \subseteq {binary.height}
                    /\ r.model = "File" \/ binary.readable => r.file_size # {}
                    /\ r.model = "Image" /\ binary.readable =>
                          r.image_width # {} /\ r.image_height # {}

\* C27: the binary that a stored Image or File row references is in the
\* storage, in every state: also after an update that changed the binary and
\* was refused by the database after the pre-save hook had run.
C27_ReferencedBinaryKept ==
    \A r \in media : r.path \in storage.files

\* ---------------------------- properties stated over SpecAccess (User.has_perm)

\* The access mixin among the bases of a registered admin class.
AccessMixinOf(a) ==
    LET mro == AdminClasses[a].mro
    IN  mro[CHOOSE k \in 1..Len(mro) : mro[k] \in AccessMixins]

\* C28: for a content_manager or a crm_manager, User.has_perm is true of the
\* view, add, change or delete codename of a registered model only if the
\* access mixin of the model's admin allows the operation to that role, and
\* User.has_module_perms is true of an app only if the app has an admin class
\* whose module the role may access; for an admin both are true.
C28_HasPermWithinMixins ==
    request.view = "permission" /\ request.user.is_authenticated =>
        LET u == request.user
            opts == AdminClasses[request.admin]
        IN  /\ (/\ u.role \in {"content_manager", "crm_manager"}
                /\ request.op \in CrudOps
                /\ has_perm(u, Codename(opts, request.op)))
                  => ClassMethod(AccessMixinOf(request.admin), opts, u, request.op)
            /\ (/\ u.role \in {"content_manager", "crm_manager"}
                /\ request.op = "module"
                /\ has_module_perms(u, opts.app))
                  => \E b \in Admins : /\ AdminClasses[b].app = opts.app
                                       /\ has_permission(b, u, "module")
            /\ is_admin(u) =>
                  /\ has_module_perms(u, opts.app)
                  /\ \A op \in CrudOps : has_perm(u, Codename(opts, op))

C28_Witness ==
    /\ request.view = "permission"
    /\ request.user.is_authenticated
    /\ request.user.role = "content_manager"
    /\ request.admin = "HeroBlockAdmin"
    /\ request.op = "delete"
    /\ has_perm(request.user, "main_page.delete_heroblock")
    /\ ~has_perm(request.user, "core.change_sitesettings")

\* -------------------------------------------- properties stated over SpecSlug

\* The slug with the counter of the loop appended; 0 is the slug itself.
Suffixed(slug, counter) ==
    IF counter = 0 THEN slug ELSE slug \o "-" \o ToString(counter)

C30_CarouselOnlyPublished ==
    request.view = "carousel" =>
        /\ \A k \in DOMAIN request.items :
              /\ news[request.items[k]].is_active
              /\ news[request.items[k]].publish_date <= request.at
        /\ Len(request.items) <= request.news_count
        /\ ~request.show_news_carousel => request.items = <<>>

=============================================================================
